---- MODULE Spec2Model ----
(***************************************************************************)
(* Verification model of the knowledge-skill-builder scripts:              *)
(*   analyze_knowledge_repo.py  (corpus analyzer and loading strategy)     *)
(*   validate_skill.py          (SkillValidator)                           *)
(*   package_skill.py           (validation gate and ZIP packaging)        *)
(*                                                                         *)
(* File contents are modelled as sequences of lines, each line carrying    *)
(* what the scripts' regular expressions find in it.  Token estimates      *)
(* (word count * 1.3) are kept in tenths of a token (word count * 13) so   *)
(* that they stay integers.                                                *)
(***************************************************************************)
EXTENDS Integers, Sequences, FiniteSets, TLC

VARIABLES
    \* estimate_loading_strategy: its two inputs and its returned pair
    ls_tokens10, ls_files, ls_result,
    \* SkillValidator: the skill directory it is run on, the position in
    \* validate_all, the object's fields, and the process exit status
    skill_dir, va_pc, errors, warnings, frontmatter, content, va_exit,
    \* package_skill.py: the command line, what the run meets outside the
    \* skill directory, the position in main, the output directory, the file
    \* at the archive path, and the exit status
    pk_args, pk_env, pk_pc, out_dir, zip_file, pk_exit,
    \* analyze_knowledge_repo.py: whether the corpus root exists, the markdown
    \* files in the order glob yields them, the position in
    \* analyze_repository, and the analysis dict; then main's --output
    \* argument, the report generate_report emitted, and the exit status
    repo_exists, md_files, an_pc, analysis, an_output, an_report, an_exit,
    \* init_knowledge_skill.py: the arguments of create_skill and its caller,
    \* the file system under the output path, the position in create_skill,
    \* and the exit status
    cs_args, cs_fs, cs_pc, cs_exit

lsVars == <<ls_tokens10, ls_files, ls_result>>
vaVars == <<skill_dir, va_pc, errors, warnings, frontmatter, content, va_exit>>
pkVars == <<pk_args, pk_env, pk_pc, out_dir, zip_file, pk_exit>>

anVars == <<repo_exists, md_files, an_pc, analysis, an_output, an_report, an_exit>>

csVars == <<cs_args, cs_fs, cs_pc, cs_exit>>
vars == <<lsVars, vaVars, pkVars, anVars, csVars>>

None == "None"

\* The exit status of a process that has not exited.
NoExit == 0 - 1

(***************************************************************************)
(* Text: Python str operations used by the scripts                         *)
(***************************************************************************)

LowerAlpha == "abcdefghijklmnopqrstuvwxyz"
UpperAlpha == "ABCDEFGHIJKLMNOPQRSTUVWXYZ"
DigitChars == "0123456789"

CharAt(s, i) == SubSeq(s, i, i)
CharsOf(s) == { CharAt(s, i) : i \in 1..Len(s) }

\* The characters str.strip() removes.
Whitespace == {" ", "\t", "\n", "\r", "\f"}

\* The naturals within m of c.
Window(c, m) == { x \in (c - m)..(c + m) : x >= 0 }

MinOf(S) == CHOOSE i \in S : \A j \in S : i <= j
MaxOf(S) == 0 - MinOf({ 0 - i : i \in S })

\* c repeated n times (built by doubling).
RECURSIVE Rep(_, _)
Rep(c, n) ==
    IF n = 0 THEN ""
    ELSE IF n % 2 = 0
    THEN LET h == Rep(c, n \div 2) IN h \o h
    ELSE c \o Rep(c, n - 1)

\* sub in s  (Python substring test on two str)
Contains(s, sub) ==
    \E i \in 1..(Len(s) - Len(sub) + 1) : SubSeq(s, i, i + Len(sub) - 1) = sub

StartsWith(s, prefix) ==
    Len(s) >= Len(prefix) /\ SubSeq(s, 1, Len(prefix)) = prefix

\* s.strip()
Strip(s) ==
    LET keep == { i \in 1..Len(s) : CharAt(s, i) \notin Whitespace }
    IN  IF keep = {} THEN "" ELSE SubSeq(s, MinOf(keep), MaxOf(keep))

\* s.split('/')
RECURSIVE SplitPath(_)
SplitPath(s) ==
    LET seps == { i \in 1..Len(s) : CharAt(s, i) = "/" }
    IN  IF seps = {} THEN <<s>>
        ELSE <<SubSeq(s, 1, MinOf(seps) - 1)>>
                 \o SplitPath(SubSeq(s, MinOf(seps) + 1, Len(s)))

UpperChars == { CharAt(UpperAlpha, i) : i \in 1..26 }

LowerChar(c) ==
    IF c \in UpperChars
    THEN CharAt(LowerAlpha, CHOOSE i \in 1..26 : CharAt(UpperAlpha, i) = c)
    ELSE c

\* s.lower()
RECURSIVE Lower(_)
Lower(s) ==
    IF s = "" THEN ""
    ELSE IF Len(s) = 1 THEN LowerChar(s)
    ELSE Lower(SubSeq(s, 1, Len(s) \div 2)) \o Lower(SubSeq(s, (Len(s) \div 2) + 1, Len(s)))

(***************************************************************************)
(* YAML values and file contents                                           *)
(*                                                                         *)
(* A YAML value is a record [t, s, items, m]: t its Python type, s the     *)
(* text of a scalar, items the elements of a list, m the entries of a      *)
(* mapping in insertion order.                                             *)
(***************************************************************************)

YNull == [t |-> "null", s |-> "", items |-> <<>>, m |-> <<>>]
YStr(s) == [t |-> "str", s |-> s, items |-> <<>>, m |-> <<>>]
YInt(digits) == [t |-> "int", s |-> digits, items |-> <<>>, m |-> <<>>]
YList(items) == [t |-> "list", s |-> "", items |-> items, m |-> <<>>]
YMap(entries) == [t |-> "map", s |-> "", items |-> <<>>, m |-> entries]
EmptyDict == YMap(<<>>)

IsDict(v) == v.t = "map"
IsStr(v) == v.t = "str"
IsList(v) == v.t = "list"

\* Python truthiness of a loaded value (bool(v)).
Truthy(v) ==
    CASE v.t = "null" -> FALSE
      [] v.t = "str" -> v.s # ""
      [] v.t = "int" -> v.s # "0"
      [] v.t = "list" -> v.items # <<>>
      [] v.t = "map" -> v.m # <<>>

HasKey(d, key) == \E i \in 1..Len(d.m) : d.m[i].key = key
Get(d, key) == d.m[CHOOSE i \in 1..Len(d.m) : d.m[i].key = key].val
Keys(d) == { d.m[i].key : i \in 1..Len(d.m) }

\* d[key] = val on a dict: replaces in place or appends.
Put(d, key, val) ==
    IF HasKey(d, key)
    THEN YMap([i \in 1..Len(d.m) |->
                  IF d.m[i].key = key THEN [key |-> key, val |-> val] ELSE d.m[i]])
    ELSE YMap(Append(d.m, [key |-> key, val |-> val]))

\* A line of a text file.  k is what the line is: "delim" the line '---',
\* "kv" a 'key: value' line, "item" a '- value' line, "scalar" a plain
\* scalar, "bad" a line no YAML parser accepts, "blank" an empty line,
\* "text" a line of markdown prose.  The other fields are what the scripts
\* read off the line: its length in characters, its whitespace-delimited
\* words, the targets of its [[wikilinks]], the words of its #hashtags, the
\* text of an ATX heading, whether it holds a ``` fence, and for SKILL.md
\* the [TODO markers, second-person phrases, lower-cased key words and
\* backtick references in it.
BlankLine ==
    [k |-> "blank", key |-> "", val |-> YNull, chars |-> 0, words |-> 0,
     links |-> <<>>, hashtags |-> <<>>, heading |-> "", fence |-> FALSE,
     todos |-> 0, second |-> 0, marks |-> {}, refs |-> <<>>]
Delim == [BlankLine EXCEPT !.k = "delim", !.chars = 3, !.words = 1]
KV(key, val, words) ==
    [BlankLine EXCEPT !.k = "kv", !.key = key, !.val = val,
                      !.chars = Len(key) + 2 + Len(val.s), !.words = words]
Item(val) ==
    [BlankLine EXCEPT !.k = "item", !.val = val, !.chars = 2 + Len(val.s), !.words = 2]
Scalar(val, words) ==
    [BlankLine EXCEPT !.k = "scalar", !.val = val, !.chars = Len(val.s), !.words = words]
BadYaml == [BlankLine EXCEPT !.k = "bad", !.chars = 9, !.words = 2]
Prose(words, marks) ==
    [BlankLine EXCEPT !.k = "text", !.chars = 6 * words, !.words = words, !.marks = marks]

\* A text: its lines, and whether a newline follows the last line.
TextOf(lines, nl) == [lines |-> lines, nl |-> nl]
EmptyText == TextOf(<<>>, FALSE)

\* re.match(r'^---\n(.*?)\n---\n', content, re.DOTALL): the index of the
\* line that the trailing '\n---\n' of the pattern matches, 0 without match.
\* The text must start with the line '---'; the lazy group ends at the first
\* later line '---' that has a newline before it (so not line 2) and a
\* newline after it.
FrontmatterMatch(text) ==
    LET l == text.lines
        closers == { j \in 3..Len(l) :
                        l[j].k = "delim" /\ (j < Len(l) \/ text.nl) }
    IN  IF Len(l) >= 1 /\ l[1].k = "delim" /\ closers # {}
        THEN MinOf(closers) ELSE 0

\* group(1) of the match: the lines between the two delimiters.
FrontmatterGroup(text) ==
    SubSeq(text.lines, 2, FrontmatterMatch(text) - 1)

\* The text after the match (what re.sub leaves when the match is removed).
AfterFrontmatter(text) ==
    SubSeq(text.lines, FrontmatterMatch(text) + 1, Len(text.lines))

RECURSIVE JoinScalars(_)
JoinScalars(ls) ==
    IF Len(ls) = 1 THEN ls[1].val.s
    ELSE ls[1].val.s \o " " \o JoinScalars(Tail(ls))

RECURSIVE EntriesOf(_, _)
EntriesOf(ls, d) ==
    IF ls = <<>> THEN d
    ELSE EntriesOf(Tail(ls), Put(d, ls[1].key, ls[1].val))

SelectLines(ls, Keep(_)) ==
    LET F[i \in 0..Len(ls)] ==
            IF i = 0 THEN <<>>
            ELSE IF Keep(ls[i]) THEN Append(F[i - 1], ls[i]) ELSE F[i - 1]
    IN  F[Len(ls)]

\* yaml.safe_load on the lines of a block: [error, value].  A leading '---'
\* is the document start marker; blank lines are skipped; a second '---'
\* starts a second document, which safe_load refuses; lines of one kind load
\* as a mapping (a repeated key keeps its last value), a list or a scalar;
\* lines of mixed kinds do not parse.
SafeLoad(block) ==
    LET body == IF block # <<>> /\ block[1].k = "delim" THEN Tail(block) ELSE block
        NotBlank(ln) == ln.k # "blank"
        ls == SelectLines(body, NotBlank)
        kinds == { ls[i].k : i \in 1..Len(ls) }
        Ok(v) == [error |-> FALSE, value |-> v]
    IN  IF ls = <<>> THEN Ok(YNull)
        ELSE IF kinds = {"kv"} THEN Ok(EntriesOf(ls, EmptyDict))
        ELSE IF kinds = {"item"} THEN Ok(YList([i \in 1..Len(ls) |-> ls[i].val]))
        ELSE IF kinds = {"scalar"}
        THEN IF Len(ls) = 1 THEN Ok(ls[1].val) ELSE Ok(YStr(JoinScalars(ls)))
        ELSE [error |-> TRUE, value |-> YNull]

(***************************************************************************)
(* validate_skill.py: SkillValidator                                       *)
(***************************************************************************)

MaxNameLen == 64
MaxDescriptionLen == 1024
MaxBodyWords == 5000

E_NotFound == "SKILL.md not found"
E_Unreadable == "Could not read SKILL.md"
E_NoFrontmatter == "SKILL.md must begin with YAML frontmatter (---)"
E_NotDict == "Frontmatter must be a valid YAML dictionary"
E_BadYaml == "Invalid YAML frontmatter"
E_NameMissing == "Required frontmatter field 'name' is missing"
E_DescMissing == "Required frontmatter field 'description' is missing"
E_NameType == "Field 'name' must be a string"
E_NameFormat == "Field 'name' must contain only lowercase letters, numbers, and hyphens"
E_NameLength == "Field 'name' must be 64 characters or less"
E_DescType == "Field 'description' must be a string"
E_DescLength == "Field 'description' must be 1024 characters or less"
E_DescEmpty == "Field 'description' cannot be empty"
E_ToolsType == "Field 'allowed-tools' must be a list"
W_NameTodo == "Field 'name' appears to contain TODO placeholder"
W_DescTodo == "Field 'description' contains TODO placeholders"
W_Words == "SKILL.md body is over the recommended word count"
W_Todo == "Found TODO placeholder(s) in content"
W_SecondPerson == "Found instances of second-person language"
W_NoToken == "No token budget documentation found (recommended for transparency)"
W_NoDirs == "No conventional directories found (scripts/, references/, assets/)"

NameChars == CharsOf(LowerAlpha) \cup CharsOf(DigitChars) \cup {"-"}

\* re.match(r'^[a-z0-9-]+$', name): one or more characters of the class from
\* the start, then '$', which matches at the end of the string and also just
\* before a newline that is the last character.
NameRegexMatch(name) ==
    \E k \in 1..Len(name) :
        /\ \A i \in 1..k : CharAt(name, i) \in NameChars
        /\ \/ k = Len(name)
           \/ k = Len(name) - 1 /\ CharAt(name, Len(name)) = "\n"

Findings(errs, warns) == [errors |-> errs, warnings |-> warns]
If(cond, msg) == IF cond THEN <<msg>> ELSE <<>>

\* check_frontmatter, "Validate name field": what is appended for a
\* frontmatter value name.
NameFindings(name) ==
    IF ~IsStr(name)
    THEN Findings(<<E_NameType>>, <<>>)
    ELSE Findings(If(~NameRegexMatch(name.s), E_NameFormat)
                      \o If(Len(name.s) > MaxNameLen, E_NameLength),
                  If(Contains(Lower(name.s), "todo"), W_NameTodo))

\* Mutant: the length limit tested with >=.
DescriptionFindingsOffByOne(description) ==
    IF ~IsStr(description)
    THEN Findings(<<E_DescType>>, <<>>)
    ELSE Findings(If(Len(description.s) >= MaxDescriptionLen, E_DescLength)
                      \o If(Len(Strip(description.s)) = 0, E_DescEmpty),
                  If(Contains(description.s, "[TODO") \/ Contains(description.s, "TODO:"),
                     W_DescTodo))

\* check_frontmatter, "Validate description field".
DescriptionFindings(description) ==
    IF ~IsStr(description)
    THEN Findings(<<E_DescType>>, <<>>)
    ELSE Findings(If(Len(description.s) > MaxDescriptionLen, E_DescLength)
                      \o If(Len(Strip(description.s)) = 0, E_DescEmpty),
                  If(Contains(description.s, "[TODO") \/ Contains(description.s, "TODO:"),
                     W_DescTodo))

\* Python's  key in v  for a str key: [raises, result].  A dict tests its
\* keys, a str tests for a substring, a list tests its elements; None and
\* numbers are not iterable and raise TypeError.
PyIn(key, v) ==
    CASE v.t = "map" -> [raises |-> FALSE, result |-> HasKey(v, key)]
      [] v.t = "str" -> [raises |-> FALSE, result |-> Contains(v.s, key)]
      [] v.t = "list" ->
            [raises |-> FALSE,
             result |-> \E i \in 1..Len(v.items) : v.items[i] = YStr(key)]
      [] OTHER -> [raises |-> TRUE, result |-> FALSE]

\* Python's  v[key]  for a str key raises TypeError unless v is a dict.
SubscriptRaises(v) == ~IsDict(v)

\* check_frontmatter on self.frontmatter = fm: whether it raises, and what it
\* appends to errors and warnings when it does not.
CheckFrontmatter(fm) ==
    LET hasName == PyIn("name", fm)
        hasDesc == PyIn("description", fm)
        hasTools == PyIn("allowed-tools", fm)
        present == hasName.result \/ hasDesc.result \/ hasTools.result
        n == IF hasName.result THEN NameFindings(Get(fm, "name"))
             ELSE Findings(<<>>, <<>>)
        d == IF hasDesc.result THEN DescriptionFindings(Get(fm, "description"))
             ELSE Findings(<<>>, <<>>)
    IN  IF hasName.raises \/ (present /\ SubscriptRaises(fm))
        THEN [raises |-> TRUE, errors |-> <<>>, warnings |-> <<>>]
        ELSE [raises |-> FALSE,
              errors |-> If(~hasName.result, E_NameMissing)
                            \o If(~hasDesc.result, E_DescMissing)
                            \o n.errors \o d.errors
                            \o If(hasTools.result /\ ~IsList(Get(fm, "allowed-tools")),
                                  E_ToolsType),
              warnings |-> n.warnings \o d.warnings]

SumOver(ls, F(_)) ==
    LET S[i \in 0..Len(ls)] == IF i = 0 THEN 0 ELSE S[i - 1] + F(ls[i])
    IN  S[Len(ls)]

RECURSIVE Flatten(_)
Flatten(seqs) == IF seqs = <<>> THEN <<>> ELSE seqs[1] \o Flatten(Tail(seqs))

RequiredSections == <<"Purpose", "Capabilities", "Usage">>
W_NoSection(section) == "Recommended section '" \o section \o "' not found in content"
W_NotExecutable(script) == "Script " \o script \o " is not executable"
W_MissingRef(ref) == "Referenced file not found: " \o ref

\* check_content on self.content = text: the warnings it appends.
CheckContent(text) ==
    LET body == IF FrontmatterMatch(text) > 0 THEN AfterFrontmatter(text)
                ELSE text.lines
        Words(ln) == ln.words
        Todos(ln) == ln.todos
        Second(ln) == ln.second
        Has(mark) == \E i \in 1..Len(body) : mark \in body[i].marks
    IN  If(SumOver(body, Words) > MaxBodyWords, W_Words)
            \o If(SumOver(body, Todos) > 0, W_Todo)
            \o If(SumOver(body, Second) > 0, W_SecondPerson)
            \o Flatten([i \in 1..Len(RequiredSections) |->
                          If(~Has(Lower(RequiredSections[i])),
                             W_NoSection(RequiredSections[i]))])
            \o If(~Has("token"), W_NoToken)

ConventionalDirs == {"scripts", "references", "assets"}

\* check_directory_structure on the directory dir: the warnings it appends
\* (dir.scripts lists scripts/*.py in the order glob yields them).
CheckDirectoryStructure(dir) ==
    If(dir.dirs \cap ConventionalDirs = {}, W_NoDirs)
        \o IF "scripts" \in dir.dirs
           THEN Flatten([i \in 1..Len(dir.scripts) |->
                           If(~dir.scripts[i].executable,
                              W_NotExecutable(dir.scripts[i].name))])
           ELSE <<>>

\* check_references: one warning per backtick reference of self.content
\* (frontmatter included) that names no existing path of the directory.
CheckReferences(text, dir) ==
    LET refs == Flatten([i \in 1..Len(text.lines) |-> text.lines[i].refs])
    IN  Flatten([i \in 1..Len(refs) |->
                   If(refs[i] \notin dir.paths, W_MissingRef(refs[i]))])

\* Mutant: a warning fails the report like an error.
ReportWithoutFindings(errs) == Len(errs) = 0 /\ Len(warnings) = 0

\* report(): success iff there is no error.
Report(errs) == Len(errs) = 0

\* __init__
VaFresh ==
    /\ va_pc = "check_skill_md_exists"
    /\ errors = <<>>
    /\ warnings = <<>>
    /\ frontmatter = EmptyDict
    /\ content = EmptyText
    /\ va_exit = NoExit

\* validate_all: self.check_skill_md_exists(), then the test of line 45.
VaCheckSkillMdExists ==
    /\ va_pc = "check_skill_md_exists"
    /\ errors' = errors \o If(~skill_dir.has_skill_md, E_NotFound)
    /\ va_pc' = IF skill_dir.has_skill_md THEN "parse_skill_md" ELSE "report"
    /\ UNCHANGED <<skill_dir, warnings, frontmatter, content, va_exit>>

\* parse_skill_md; validate_all ignores what it returns.
VaParseSkillMd ==
    /\ va_pc = "parse_skill_md"
    /\ va_pc' = "check_frontmatter"
    /\ IF ~skill_dir.readable
       THEN /\ errors' = Append(errors, E_Unreadable)
            /\ UNCHANGED <<content, frontmatter>>
       ELSE /\ content' = skill_dir.skill_md
            /\ IF FrontmatterMatch(skill_dir.skill_md) = 0
               THEN /\ errors' = Append(errors, E_NoFrontmatter)
                    /\ UNCHANGED frontmatter
               ELSE LET loaded == SafeLoad(FrontmatterGroup(skill_dir.skill_md))
                    IN  IF loaded.error
                        THEN /\ errors' = Append(errors, E_BadYaml)
                             /\ UNCHANGED frontmatter
                        ELSE /\ frontmatter' = loaded.value
                             /\ errors' = errors \o If(~IsDict(loaded.value), E_NotDict)
    /\ UNCHANGED <<skill_dir, warnings, va_exit>>

\* check_frontmatter; an exception it raises ends the process with a
\* traceback and exit status 1.
VaCheckFrontmatter ==
    /\ va_pc = "check_frontmatter"
    /\ LET r == CheckFrontmatter(frontmatter)
       IN  IF r.raises
           THEN /\ va_pc' = "crashed"
                /\ va_exit' = 1
                /\ UNCHANGED <<errors, warnings>>
           ELSE /\ va_pc' = "check_content"
                /\ errors' = errors \o r.errors
                /\ warnings' = warnings \o r.warnings
                /\ UNCHANGED va_exit
    /\ UNCHANGED <<skill_dir, frontmatter, content>>

VaCheckContent ==
    /\ va_pc = "check_content"
    /\ va_pc' = "check_directory_structure"
    /\ warnings' = warnings \o CheckContent(content)
    /\ UNCHANGED <<skill_dir, errors, frontmatter, content, va_exit>>

VaCheckDirectoryStructure ==
    /\ va_pc = "check_directory_structure"
    /\ va_pc' = "check_references"
    /\ warnings' = warnings \o CheckDirectoryStructure(skill_dir)
    /\ UNCHANGED <<skill_dir, errors, frontmatter, content, va_exit>>

VaCheckReferences ==
    /\ va_pc = "check_references"
    /\ va_pc' = "report"
    /\ warnings' = warnings \o CheckReferences(content, skill_dir)
    /\ UNCHANGED <<skill_dir, errors, frontmatter, content, va_exit>>

\* return self.report(), then main's sys.exit(0 if success else 1).
VaReport ==
    /\ va_pc = "report"
    /\ va_pc' = "returned"
    /\ va_exit' = IF Report(errors) THEN 0 ELSE 1
    /\ UNCHANGED <<skill_dir, errors, warnings, frontmatter, content>>

(***************************************************************************)
(* Skill directories the validator is run on                               *)
(***************************************************************************)

\* Half-widths of the windows of string lengths drawn around the limits,
\* and the longest short name drawn.
NameMargin == 2
DescMargin == 2
ShortLen == 2

NameLens == (0..ShortLen) \cup Window(MaxNameLen, NameMargin)
NameTails == {"", "\n", "M", "-9", "_", "\na", " "}

NameInputs ==
    { YStr(Rep("a", n) \o tail) : n \in NameLens, tail \in NameTails }
        \cup { YStr("my-skill"), YStr("My-Skill"), YStr("todo-skill") }
        \cup { YInt("42"), YNull, YList(<<YStr("my-skill")>>) }

DescInputs ==
    { YStr(Rep("d", n)) : n \in (0..1) \cup Window(MaxDescriptionLen, DescMargin) }
        \cup { YStr(Rep(" ", n)) : n \in {1, 3, MaxDescriptionLen + 1} }
        \cup { YStr(" d "), YStr("\t\n"), YStr("[TODO: describe the skill]") }
        \cup { YInt("42"), YNull, YList(<<YStr("d")>>) }

GoodName == KV("name", YStr("my-skill"), 2)
GoodDesc == KV("description", YStr("Answers questions from the handbook"), 6)

\* The lines between the delimiters of the SKILL.md files drawn.
FrontmatterBlocks ==
    { <<KV("name", n, 2), GoodDesc>> : n \in NameInputs }
        \cup { <<GoodName, KV("description", d, 2)>> : d \in DescInputs }
        \cup { <<GoodName>>, <<GoodDesc>>,
               <<GoodName, GoodDesc, KV("allowed-tools", YList(<<YStr("Read")>>), 2)>>,
               <<GoodName, GoodDesc, KV("allowed-tools", YStr("Read"), 2)>>,
               <<KV("name", YStr("My-Skill"), 2), GoodName, GoodDesc>>,
               <<BlankLine>>,
               <<Scalar(YStr("plain"), 1)>>,
               <<Scalar(YStr("a description of the name"), 5)>>,
               <<Scalar(YInt("42"), 1)>>,
               <<Item(YStr("x"))>>,
               <<Item(YStr("name")), Item(YStr("description"))>>,
               <<BadYaml>>,
               <<GoodName, Item(YStr("x"))>> }

GoodBody ==
    << [Prose(3, {"purpose"}) EXCEPT !.refs = <<"references/quick-reference.md">>],
       Prose(4, {"capabilities", "usage"}),
       Prose(6, {"token"}) >>

PoorBody ==
    << [Prose(MaxBodyWords + 1, {"usage"}) EXCEPT
            !.todos = 2, !.second = 1, !.refs = <<"scripts/missing.py">>] >>

SkillMdTexts ==
    { TextOf(<<Delim>> \o b \o <<Delim>> \o GoodBody, TRUE) : b \in FrontmatterBlocks }
        \cup { TextOf(<<Delim, GoodName, GoodDesc, Delim>> \o PoorBody, FALSE),
               TextOf(<<Delim, GoodName, GoodDesc, Delim>>, TRUE),
               TextOf(<<Delim, GoodName, GoodDesc, Delim>>, FALSE),
               TextOf(<<Delim, Delim>> \o GoodBody, TRUE),
               TextOf(<<Delim, GoodName, GoodDesc>> \o GoodBody, TRUE),
               TextOf(GoodBody, TRUE),
               EmptyText }

Script(name, executable) == [name |-> name, executable |-> executable]

\* What lies beside SKILL.md: sub-directories, scripts/*.py, existing paths.
File(path, bytes) == [path |-> path, bytes |-> bytes]

\* What lies beside SKILL.md: sub-directories, scripts/*.py, existing paths,
\* and the regular files with their path below the skill directory.
FullLayout ==
    [dirs |-> {"scripts", "references", "assets"},
     scripts |-> <<Script("search.py", TRUE)>>,
     paths |-> {"references/quick-reference.md", "scripts/search.py"},
     files |-> { File(<<"scripts", "search.py">>, "bytes-1"),
                 File(<<"references", "quick-reference.md">>, "bytes-2"),
                 File(<<"references", ".draft.md">>, "bytes-3"),
                 File(<<".git", "config">>, "bytes-4"),
                 File(<<"scripts", "__pycache__", "search.cpython-311.pyc">>, "bytes-5"),
                 File(<<"scripts", "old.pyo">>, "bytes-6"),
                 File(<<"assets", "__pycache__", "notes.txt">>, "bytes-7") }]
ScriptsLayout ==
    [dirs |-> {"scripts"},
     scripts |-> <<Script("search.py", FALSE)>>,
     paths |-> {"scripts/search.py"},
     files |-> { File(<<"scripts", "search.py">>, "bytes-1") }]
BareLayout == [dirs |-> {}, scripts |-> <<>>, paths |-> {}, files |-> {}]

Layouts == {FullLayout, ScriptsLayout, BareLayout}

SkillDir(has, readable, text, layout) ==
    [has_skill_md |-> has, readable |-> readable, skill_md |-> text,
     dirs |-> layout.dirs, scripts |-> layout.scripts, paths |-> layout.paths,
     files |-> layout.files]

SkillDirs ==
    { SkillDir(TRUE, TRUE, t, l) : t \in SkillMdTexts, l \in Layouts }
        \cup { SkillDir(TRUE, FALSE, EmptyText, l) : l \in Layouts }
        \cup { SkillDir(FALSE, FALSE, EmptyText, l) : l \in Layouts }

VaInit ==
    /\ skill_dir \in SkillDirs
    /\ VaFresh

VaIdle ==
    /\ skill_dir = SkillDir(FALSE, FALSE, EmptyText, BareLayout)
    /\ VaFresh

(***************************************************************************)
(* package_skill.py                                                        *)
(***************************************************************************)

\* pathlib: a path is the tuple of its parts.
RECURSIVE Join(_, _)
Join(parts, sep) ==
    IF parts = <<>> THEN ""
    ELSE IF Len(parts) = 1 THEN parts[1]
    ELSE parts[1] \o sep \o Join(Tail(parts), sep)

\* str(path)
PathStr(parts) ==
    IF parts # <<>> /\ parts[1] = "/" THEN "/" \o Join(Tail(parts), "/")
    ELSE Join(parts, "/")

\* path.name, path.parent
PathName(parts) == IF parts = <<>> THEN "" ELSE parts[Len(parts)]
PathParent(parts) == IF parts = <<>> THEN <<>> ELSE SubSeq(parts, 1, Len(parts) - 1)

\* path.suffix: the last component from its last dot on, unless that dot is
\* its first or its last character.
PathSuffix(parts) ==
    LET name == PathName(parts)
        dots == { i \in 1..Len(name) : CharAt(name, i) = "." }
    IN  IF dots # {} /\ MaxOf(dots) > 1 /\ MaxOf(dots) < Len(name)
        THEN SubSeq(name, MaxOf(dots), Len(name)) ELSE ""

\* path.relative_to(base), for a base the path starts with.
RelativeTo(parts, base) == SubSeq(parts, Len(base) + 1, Len(parts))

\* Mutant: only hidden files are skipped.
SkippedWhenHidden(skill_path, rel) ==
    \E i \in 1..Len(skill_path \o rel) : StartsWith((skill_path \o rel)[i], ".")

\* package_skill, "Skip certain files": file_path is skill_path / rel, and
\* all of its parts, those of skill_path included, are tested.
Skipped(skill_path, rel) ==
    LET file_path == skill_path \o rel
    IN  \/ \E i \in 1..Len(file_path) : StartsWith(file_path[i], ".")
        \/ PathSuffix(file_path) \in {".pyc", ".pyo"}
        \/ Contains(PathStr(file_path), "__pycache__")

\* Every regular file of the directory, SKILL.md included.
AllFiles(dir) ==
    dir.files \cup IF dir.has_skill_md THEN {File(<<"SKILL.md">>, "bytes-0")} ELSE {}

\* The entries the loop over skill_path.rglob('*') writes: the name of an
\* entry is str(file_path.relative_to(skill_path.parent)).
ArchiveEntries(skill_path, dir) ==
    { [arcname |-> PathStr(RelativeTo(skill_path \o f.path, PathParent(skill_path))),
       bytes |-> f.bytes] :
        f \in { g \in AllFiles(dir) : ~Skipped(skill_path, g.path) } }

\* The entries the archive can hold when zipf.write raises on the file at
\* 'unreadable': the entries written before it in the order of rglob, which
\* the file system decides. ZipFile's context manager closes the archive on
\* the exception, so the file at zip_path holds those entries.
PartialEntries(skill_path, dir, unreadable) ==
    LET before == { e \in ArchiveEntries(skill_path, dir) :
                      e.arcname # PathStr(RelativeTo(skill_path \o unreadable,
                                                     PathParent(skill_path))) }
    IN  SUBSET before

\* zipf.write(file_path, arcname) raises for a file the loop does not skip
\* and that cannot be read.
WriteRaises(skill_path, dir, unreadable) ==
    \E f \in AllFiles(dir) : f.path = unreadable /\ ~Skipped(skill_path, f.path)

\* Mutant: validate_skill passes whatever the validator's exit status.
ValidatorPassedAlways(returncode) == TRUE

\* validate_skill: result.returncode != 0 fails the validation.
ValidatorPassed(returncode) == returncode = 0

NoFile == [exists |-> FALSE, old |-> FALSE, entries |-> {}]
OldFile == [exists |-> TRUE, old |-> TRUE, entries |-> {}]
Archive(entries) == [exists |-> TRUE, old |-> FALSE, entries |-> entries]

\* main: args.skip_validation decides whether validate_skill is called.
PkMain ==
    /\ pk_pc = "main"
    /\ pk_pc' = IF pk_args.skip_validation THEN "package_skill" ELSE "validate_skill"
    /\ UNCHANGED <<pk_args, pk_env, out_dir, zip_file, pk_exit>>

\* validate_skill without a validator run: validate_skill.py is not beside
\* the packager, or subprocess.run raises; both return True.
PkValidateWithoutRun ==
    /\ pk_pc = "validate_skill"
    /\ ~pk_env.validate_script_exists \/ pk_env.run_raises
    /\ pk_pc' = "package_skill"
    /\ UNCHANGED <<pk_args, pk_env, out_dir, zip_file, pk_exit>>

\* validate_skill starts validate_skill.py on the skill path.
PkRunValidator ==
    /\ pk_pc = "validate_skill"
    /\ pk_env.validate_script_exists /\ ~pk_env.run_raises
    /\ pk_pc' = "subprocess"
    /\ UNCHANGED <<pk_args, pk_env, out_dir, zip_file, pk_exit>>

\* The validator process has ended: validate_skill returns on its exit
\* status and main exits with 1 when it returns False.
PkValidatorEnded ==
    /\ pk_pc = "subprocess"
    /\ va_exit # NoExit
    /\ IF ValidatorPassed(va_exit)
       THEN pk_pc' = "package_skill" /\ UNCHANGED pk_exit
       ELSE pk_pc' = "exited" /\ pk_exit' = 1
    /\ UNCHANGED <<pk_args, pk_env, out_dir, zip_file>>

\* Mutant: only a refusal stops the overwrite.
OverwriteUnlessRefused(response) == Lower(response) # "n"

\* package_skill, "Check if zip already exists": the answer that lets the
\* existing archive be overwritten.
OverwriteConfirmed(response) == Lower(response) = "y"

\* package_skill, and main's exit on its result. An exception raised while
\* the archive is written is caught and package_skill returns False.
PkPackageSkill ==
    /\ pk_pc = "package_skill"
    /\ pk_pc' = "exited"
    /\ IF pk_env.kind # "dir" \/ ~skill_dir.has_skill_md
       THEN /\ pk_exit' = 1
            /\ UNCHANGED <<out_dir, zip_file>>
       ELSE /\ out_dir' = IF pk_args.output # None THEN "exists" ELSE out_dir
            /\ IF zip_file.exists /\ ~OverwriteConfirmed(pk_env.response)
               THEN /\ pk_exit' = 1
                    /\ UNCHANGED zip_file
               ELSE IF WriteRaises(pk_args.skill_path, skill_dir, pk_env.unreadable)
               THEN /\ \E written \in PartialEntries(pk_args.skill_path, skill_dir,
                                                     pk_env.unreadable) :
                           zip_file' = Archive(written)
                    /\ pk_exit' = 1
               ELSE /\ zip_file' = Archive(ArchiveEntries(pk_args.skill_path, skill_dir))
                    /\ pk_exit' = 0
    /\ UNCHANGED <<pk_args, pk_env>>

\* The command lines and surroundings drawn.
SkillPaths ==
    { <<"my-skill">>,
      <<"skills", "my-skill">>,
      <<"..", "my-skill">>,
      <<"/", "srv", "skills", "my-skill">>,
      <<"/", "home", "dev", ".config", "my-skill">> }

PkArgs == [skill_path : SkillPaths, output : {None, "dist"}, skip_validation : BOOLEAN]

PkEnvs ==
    [kind : {"dir", "file", "missing"}, validate_script_exists : BOOLEAN,
     run_raises : BOOLEAN, response : {"y", "Y", "n", "", "yes"},
     unreadable : {<<>>, <<"scripts", "search.py">>}]

PkSkillMdTexts ==
    { TextOf(<<Delim, GoodName, GoodDesc, Delim>> \o GoodBody, TRUE),
      TextOf(<<Delim, KV("name", YStr("My-Skill"), 2), GoodDesc, Delim>> \o GoodBody, TRUE),
      TextOf(<<Delim, GoodName, GoodDesc, Delim>> \o PoorBody, TRUE),
      TextOf(<<Delim, Scalar(YStr("a description of the name"), 5), Delim>>
                 \o GoodBody, TRUE) }

PkSkillDirs ==
    { SkillDir(TRUE, TRUE, t, FullLayout) : t \in PkSkillMdTexts }
        \cup { SkillDir(FALSE, FALSE, EmptyText, ScriptsLayout) }

PkFresh ==
    /\ pk_pc = "main"
    /\ out_dir = "missing"
    /\ pk_exit = NoExit

PkInit ==
    /\ pk_args \in PkArgs
    /\ pk_env \in PkEnvs
    /\ zip_file \in {NoFile, OldFile}
    /\ skill_dir \in IF pk_env.kind = "dir" THEN PkSkillDirs
                     ELSE {SkillDir(FALSE, FALSE, EmptyText, BareLayout)}
    /\ PkFresh
    /\ VaFresh

PkIdle ==
    /\ pk_args = [skill_path |-> <<"my-skill">>, output |-> None, skip_validation |-> FALSE]
    /\ pk_env = [kind |-> "dir", validate_script_exists |-> TRUE, run_raises |-> FALSE,
                 response |-> "n", unreadable |-> <<>>]
    /\ zip_file = NoFile
    /\ PkFresh

(***************************************************************************)
(* analyze_knowledge_repo.py: analyze_file and analyze_repository          *)
(***************************************************************************)

\* len(content.split()) and len(content) of a text.
WordCount(text) == LET W(ln) == ln.words IN SumOver(text.lines, W)
CharCount(text) ==
    LET C(ln) == ln.chars
    IN  SumOver(text.lines, C)
            + (IF text.lines = <<>> THEN 0 ELSE Len(text.lines) - 1)
            + (IF text.nl THEN 1 ELSE 0)

\* Mutant: the estimate taken from the length of the text, not its words.
EstimatedTokens10OfSize(text) == 13 * CharCount(text)

\* len(content.split()) * 1.3, in tenths of a token.
EstimatedTokens10(text) == 13 * WordCount(text)

\* analyze_file, "Parse frontmatter": the value left in
\* file_info['frontmatter'].
ParsedFrontmatter(text) ==
    IF FrontmatterMatch(text) = 0 THEN EmptyDict
    ELSE LET loaded == SafeLoad(FrontmatterGroup(text))
         IN  IF loaded.error THEN EmptyDict
             ELSE IF Truthy(loaded.value) THEN loaded.value
             ELSE EmptyDict

\* Mutant: a single string under 'tags' is not taken as a tag.
FrontmatterTagsOfLists(fm) ==
    IF ~PyIn("tags", fm).result THEN <<>>
    ELSE IF IsList(Get(fm, "tags")) THEN Get(fm, "tags").items ELSE <<>>

\* analyze_file, "Extract tags from frontmatter".
FrontmatterTags(fm) ==
    IF ~PyIn("tags", fm).result THEN <<>>
    ELSE LET tags == Get(fm, "tags")
         IN  IF IsList(tags) THEN tags.items
             ELSE IF IsStr(tags) THEN <<tags>>
             ELSE <<>>

\* analyze_file: whether it raises, and the file_info it returns otherwise.
AnalyzeFile(file) ==
    LET text == file.text
        fm == ParsedFrontmatter(text)
        hasTags == PyIn("tags", fm)
        Links(ln) == ln.links
        Hashtags(ln) == [i \in 1..Len(ln.hashtags) |-> YStr(ln.hashtags[i])]
        Headings(ln) == If(ln.heading # "", ln.heading)
        all == text.lines
    IN  IF hasTags.raises \/ (hasTags.result /\ SubscriptRaises(fm))
        THEN [raises |-> TRUE, info |-> <<>>]
        ELSE [raises |-> FALSE,
              info |->
                [relative_path |-> PathStr(file.path),
                 size |-> CharCount(text),
                 estimated_tokens10 |-> EstimatedTokens10(text),
                 frontmatter |-> fm,
                 tags |-> FrontmatterTags(fm)
                             \o Flatten([i \in 1..Len(all) |-> Hashtags(all[i])]),
                 wikilinks |-> Flatten([i \in 1..Len(all) |-> Links(all[i])]),
                 headings |-> Flatten([i \in 1..Len(all) |-> Headings(all[i])]),
                 has_code_blocks |-> \E i \in 1..Len(all) : all[i].fence]]

\* A Counter, and the backlinks defaultdict(list), are kept as the sequence
\* of their entries in insertion order.
CounterInc(counter, key) ==
    IF \E i \in 1..Len(counter) : counter[i].key = key
    THEN [i \in 1..Len(counter) |->
             IF counter[i].key = key
             THEN [counter[i] EXCEPT !.n = @ + 1] ELSE counter[i]]
    ELSE Append(counter, [key |-> key, n |-> 1])

RECURSIVE CountAll(_, _)
CountAll(counter, keys) ==
    IF keys = <<>> THEN counter
    ELSE CountAll(CounterInc(counter, keys[1]), Tail(keys))

\* Mutant: a file already listed for the target is not listed again.
AddBacklinkOnce(backlinks, link, relative_path) ==
    IF \E i \in 1..Len(backlinks) : backlinks[i].key = link
    THEN [i \in 1..Len(backlinks) |->
             IF backlinks[i].key = link
                  /\ \A j \in 1..Len(backlinks[i].refs) :
                        backlinks[i].refs[j] # relative_path
             THEN [backlinks[i] EXCEPT !.refs = Append(@, relative_path)]
             ELSE backlinks[i]]
    ELSE Append(backlinks, [key |-> link, refs |-> <<relative_path>>])

\* analysis['backlinks'][link].append(relative_path)
AddBacklink(backlinks, link, relative_path) ==
    IF \E i \in 1..Len(backlinks) : backlinks[i].key = link
    THEN [i \in 1..Len(backlinks) |->
             IF backlinks[i].key = link
             THEN [backlinks[i] EXCEPT !.refs = Append(@, relative_path)]
             ELSE backlinks[i]]
    ELSE Append(backlinks, [key |-> link, refs |-> <<relative_path>>])

RECURSIVE AddBacklinks(_, _, _)
AddBacklinks(backlinks, links, relative_path) ==
    IF links = <<>> THEN backlinks
    ELSE AddBacklinks(AddBacklink(backlinks, links[1], relative_path),
                      Tail(links), relative_path)

\* Mutant: only the first field of a file is counted.
FrontmatterFieldsFirst(fm) ==
    [i \in 1..(IF Len(fm.m) > 0 THEN 1 ELSE 0) |-> fm.m[i].key]

\* file_info['frontmatter'].keys(): the keys of the dict, each once, in
\* insertion order.
FrontmatterFields(fm) == [i \in 1..Len(fm.m) |-> fm.m[i].key]

\* A list or dict is unhashable and cannot be a Counter key.
Hashable(v) == v.t \notin {"list", "map"}

\* The body of analyze_repository's loop after analyze_file returned
\* file_info: whether it raises (keys() of a frontmatter that is no dict, an
\* unhashable tag), and the analysis it leaves otherwise.
Aggregate(a, file_info) ==
    IF ~IsDict(file_info.frontmatter)
          \/ \E i \in 1..Len(file_info.tags) : ~Hashable(file_info.tags[i])
    THEN [raises |-> TRUE, analysis |-> a]
    ELSE [raises |-> FALSE,
          analysis |->
            [a EXCEPT
               !.files = Append(@, file_info),
               !.total_size = @ + file_info.size,
               !.estimated_tokens10 = @ + file_info.estimated_tokens10,
               !.frontmatter_fields =
                   CountAll(@, FrontmatterFields(file_info.frontmatter)),
               !.tags = CountAll(@, file_info.tags),
               !.wikilinks = @ \o file_info.wikilinks,
               !.backlinks =
                   AddBacklinks(@, file_info.wikilinks, file_info.relative_path)]]

RootLabel == "root"

\* build_directory_tree: the count of files per directory label, as the
\* entries of the dict in insertion order.
BuildDirectoryTree(files) ==
    CountAll(<<>>, [i \in 1..Len(files) |->
                       IF Len(files[i].path) > 1
                       THEN PathStr(PathParent(files[i].path)) ELSE RootLabel])

TopTags == 10

\* Mutant: entries of equal count come latest first.
MostCommonLatestFirst(counter, n) ==
    LET Before(i, j) ==
            counter[i].n > counter[j].n \/ (counter[i].n = counter[j].n /\ i > j)
        Rank(i) == 1 + Cardinality({ j \in 1..Len(counter) : Before(j, i) })
        sorted == [r \in 1..Len(counter) |->
                      counter[CHOOSE i \in 1..Len(counter) : Rank(i) = r]]
    IN  SubSeq(sorted, 1, IF Len(counter) < n THEN Len(counter) ELSE n)

\* Counter.most_common(n): the entries by descending count, entries of equal
\* count in insertion order, cut to n.
MostCommon(counter, n) ==
    LET Before(i, j) ==
            counter[i].n > counter[j].n \/ (counter[i].n = counter[j].n /\ i < j)
        Rank(i) == 1 + Cardinality({ j \in 1..Len(counter) : Before(j, i) })
        sorted == [r \in 1..Len(counter) |->
                      counter[CHOOSE i \in 1..Len(counter) : Rank(i) = r]]
    IN  SubSeq(sorted, 1, IF Len(counter) < n THEN Len(counter) ELSE n)

\* Mutant: every tag becomes a topic, not only the most common ones.
TopicListOfAllTags(a) ==
    LET dirs == SelectLines(a.file_structure, LAMBDA e : e.key # RootLabel)
    IN  [i \in 1..Len(dirs) |-> YStr(SplitPath(dirs[i].key)[1])]
            \o [i \in 1..Len(a.tags) |-> a.tags[i].key]

\* identify_topics before its last line: the list topics.
TopicList(a) ==
    LET tree == a.file_structure
        dirs == SelectLines(tree, LAMBDA e : e.key # RootLabel)
        fromDirs == [i \in 1..Len(dirs) |-> YStr(SplitPath(dirs[i].key)[1])]
        common == MostCommon(a.tags, TopTags)
        Add[i \in 0..Len(common)] ==
            IF i = 0 THEN fromDirs
            ELSE LET before == Add[i - 1]
                 IN  IF \E j \in 1..Len(before) : before[j] = common[i].key
                     THEN before ELSE Append(before, common[i].key)
    IN  Add[Len(common)]

\* The most distinct topics of which every arrangement is drawn.
MaxShuffled == 3

\* The elements of a sequence, each once, in the order of first occurrence.
Distinct(seq) ==
    LET D[i \in 0..Len(seq)] ==
            IF i = 0 THEN <<>>
            ELSE LET before == D[i - 1]
                 IN  IF \E j \in 1..Len(before) : before[j] = seq[i]
                     THEN before ELSE Append(before, seq[i])
    IN  D[Len(seq)]

\* The orders list(set(topics)) can return.  The order of a set of str
\* depends on the hash seed of the run: every arrangement of the distinct
\* topics is drawn when there are at most MaxShuffled of them, and the
\* rotations of the list and of its reverse when there are more.
TopicOrders(topics) ==
    LET base == Distinct(topics)
        n == Len(base)
        reversed == [i \in 1..n |-> base[n + 1 - i]]
        Rotated(seq, k) == [i \in 1..n |-> seq[((i + k - 1) % n) + 1]]
    IN  IF n <= MaxShuffled
        THEN { order \in [1..n -> { base[i] : i \in 1..n }] :
                  \A i, j \in 1..n : i # j => order[i] # order[j] }
        ELSE { Rotated(base, k) : k \in 0..(n - 1) }
                \cup { Rotated(reversed, k) : k \in 0..(n - 1) }

NewAnalysis ==
    [path |-> "repo", files |-> <<>>, total_files |-> 0, total_size |-> 0,
     frontmatter_fields |-> <<>>, tags |-> <<>>, wikilinks |-> <<>>,
     backlinks |-> <<>>, file_structure |-> <<>>, topics |-> <<>>,
     estimated_tokens10 |-> 0]

\* No report: generate_report has not emitted anything.
NoReport ==
    [generated |-> FALSE, written_to |-> "nowhere", topics |-> <<>>,
     frontmatter_fields |-> <<>>, top_tags |-> <<>>, top_backlinks |-> <<>>,
     skill_type |-> "", loading_strategy |-> "", keywords |-> <<>>,
     top_files |-> <<>>]

\* analyze_repository up to the loop: a missing root returns None, otherwise
\* the files are globbed and counted.
AnScan ==
    /\ an_pc = "analyze_repository"
    /\ IF ~repo_exists
       THEN /\ an_pc' = "returned None"
            /\ UNCHANGED analysis
       ELSE /\ an_pc' = "loop"
            /\ analysis' = [NewAnalysis EXCEPT !.total_files = Len(md_files)]
    /\ UNCHANGED <<repo_exists, md_files, an_output, an_report, an_exit>>

\* One iteration of the loop over md_files; an exception raised in it ends
\* the program.
AnAnalyzeFile ==
    /\ an_pc = "loop"
    /\ Len(analysis.files) < Len(md_files)
    /\ LET r == AnalyzeFile(md_files[Len(analysis.files) + 1])
           agg == Aggregate(analysis, r.info)
       IN  IF r.raises \/ agg.raises
           THEN /\ an_pc' = "crashed"
                /\ an_exit' = 1
                /\ UNCHANGED analysis
           ELSE /\ analysis' = agg.analysis
                /\ UNCHANGED <<an_pc, an_exit>>
    /\ UNCHANGED <<repo_exists, md_files, an_output, an_report>>

\* After the loop: build_directory_tree, identify_topics, return analysis.
AnFinish ==
    /\ an_pc = "loop"
    /\ Len(analysis.files) = Len(md_files)
    /\ \E order \in TopicOrders(TopicList(
                        [analysis EXCEPT !.file_structure = BuildDirectoryTree(md_files)])) :
          analysis' = [analysis EXCEPT
                          !.file_structure = BuildDirectoryTree(md_files),
                          !.topics = order]
    /\ an_pc' = "returned"
    /\ UNCHANGED <<repo_exists, md_files, an_output, an_report, an_exit>>

(***************************************************************************)
(* Corpora the analyzer is run on                                          *)
(***************************************************************************)

\* The most markdown files a corpus drawn holds.
MaxFiles == 2

Linked(words, links, hashtags) ==
    [Prose(words, {}) EXCEPT !.links = links, !.hashtags = hashtags]
HeadingLine(title) ==
    [BlankLine EXCEPT !.k = "text", !.chars = 2 + Len(title), !.words = 2, !.heading = title]
FenceLine == [BlankLine EXCEPT !.k = "text", !.chars = 3, !.words = 1, !.fence = TRUE]

TitleLine == KV("title", YStr("Guide"), 2)

\* No frontmatter; the same target linked twice.
NotesText ==
    TextOf(<<HeadingLine("Notes"), Linked(5, <<"Alpha", "Alpha">>, <<"dao">>), FenceLine>>, TRUE)
\* A mapping block with a list of tags.
TaggedText ==
    TextOf(<<Delim, TitleLine,
             KV("tags", YList(<<YStr("dao"), YStr("framework")>>), 3), Delim,
             Linked(4, <<"Beta", "Alpha|intro">>, <<>>)>>, TRUE)
\* A mapping block with a single string as tags.
ScalarTagText ==
    TextOf(<<Delim, KV("tags", YStr("governance"), 2), Delim,
             Linked(7, <<>>, <<"dao", "dao">>)>>, TRUE)
\* A mapping block whose closing line is the last line, without a newline.
EofBlockText == TextOf(<<Delim, TitleLine, Delim>>, FALSE)
\* A block that is not YAML.
BadYamlText == TextOf(<<Delim, BadYaml, Delim, Linked(3, <<"Alpha">>, <<>>)>>, TRUE)
\* Blocks that load as a string, a list, a number and nothing.
ScalarBlockText ==
    TextOf(<<Delim, Scalar(YStr("notes and tags"), 3), Delim, Linked(2, <<"Beta">>, <<>>)>>, TRUE)
ListBlockText ==
    TextOf(<<Delim, Item(YStr("alpha")), Item(YStr("beta")), Delim, Prose(2, {})>>, TRUE)
NumberBlockText == TextOf(<<Delim, Scalar(YInt("42"), 1), Delim, Prose(2, {})>>, TRUE)
EmptyBlockText == TextOf(<<Delim, BlankLine, Delim, Linked(2, <<"Beta">>, <<"Templates">>)>>, TRUE)

AnTexts ==
    { NotesText, TaggedText, ScalarTagText, EofBlockText, BadYamlText, ScalarBlockText,
      ListBlockText, NumberBlockText, EmptyBlockText, EmptyText }

\* Files at the root, in a directory below a directory, and in a directory
\* that is itself called root.
AnPaths == { <<"index.md">>, <<"docs", "api", "ref.md">>, <<"root", "intro.md">> }

MdFile(path, text) == [path |-> path, text |-> text]

\* The number of files of the large corpus.
LargeSize == 12

\* The i-th file of the large corpus: files alternate between a directory
\* and a directory below it; their word counts repeat with period 3; each
\* holds a hashtag of its own and every second one the hashtag of the file
\* before; their links go round 8 targets.
LargeFile(i) ==
    LET name == "n" \o ToString(i) \o ".md"
        own == "t" \o ToString(i)
    IN  MdFile(IF i % 2 = 1 THEN <<"notes", name>> ELSE <<"notes", "deep", name>>,
               TextOf(<<Linked(1 + (i % 3),
                               <<"P" \o ToString(i % 8)>>,
                               IF i % 2 = 0 THEN <<own, "t" \o ToString(i - 1)>>
                               ELSE <<own>>)>>, TRUE))

LargeCorpora ==
    { [i \in 1..LargeSize |-> LargeFile(i)],
      [i \in 1..LargeSize |-> LargeFile(LargeSize + 1 - i)] }

\* The lists glob can yield: files of distinct paths, in any order.
SmallCorpora ==
    UNION { { c \in [1..n -> { MdFile(p, t) : p \in AnPaths, t \in AnTexts }] :
                \A i, j \in 1..n : i # j => c[i].path # c[j].path } :
            n \in 0..MaxFiles }

Corpora == SmallCorpora \cup LargeCorpora

AnInit ==
    /\ repo_exists \in BOOLEAN
    /\ md_files \in IF repo_exists THEN Corpora ELSE {<<>>}
    /\ an_pc = "analyze_repository"
    /\ analysis = NewAnalysis
    /\ an_output \in {None, "analysis.md"}
    /\ an_report = NoReport
    /\ an_exit = NoExit

AnIdle ==
    /\ repo_exists = FALSE
    /\ md_files = <<>>
    /\ an_pc = "analyze_repository"
    /\ analysis = NewAnalysis
    /\ an_output = None
    /\ an_report = NoReport
    /\ an_exit = NoExit

(***************************************************************************)
(* analyze_knowledge_repo.py: estimate_loading_strategy                    *)
(***************************************************************************)

\* Thresholds of estimate_loading_strategy, in tokens and in files.
AlwaysTokens == 5000
AlwaysFiles == 10
SelectiveTokens == 20000
SelectiveFiles == 50

\* Half-width of the windows of inputs drawn around each threshold.
TokenMargin == 12
FileMargin == 2

\* Token totals in tenths: around 0 and around both token thresholds.
LsTokenInputs ==
    Window(0, TokenMargin) \cup Window(AlwaysTokens * 10, TokenMargin)
        \cup Window(SelectiveTokens * 10, TokenMargin)

LsFileInputs ==
    Window(0, FileMargin) \cup Window(AlwaysFiles, FileMargin)
        \cup Window(SelectiveFiles, FileMargin)

\* Mutant: the thresholds taken inclusive.
EstimateLoadingStrategyInclusive(total_tokens10, file_count) ==
    IF total_tokens10 <= AlwaysTokens * 10 /\ file_count <= AlwaysFiles
    THEN <<"always", "Small knowledge base - can load most content">>
    ELSE IF total_tokens10 <= SelectiveTokens * 10 /\ file_count <= SelectiveFiles
    THEN <<"selective", "Medium knowledge base - use keyword or topic-based triggers">>
    ELSE <<"on-demand", "Large knowledge base - load only when explicitly needed">>

\* Mutant: the size is judged by the tokens per file.
EstimateLoadingStrategyPerFile(total_tokens10, file_count) ==
    LET per_file10 == IF file_count > 0 THEN total_tokens10 \div file_count
                      ELSE total_tokens10
    IN  IF per_file10 < AlwaysTokens * 10
        THEN <<"always", "Small knowledge base - can load most content">>
        ELSE IF per_file10 < SelectiveTokens * 10
        THEN <<"selective", "Medium knowledge base - use keyword or topic-based triggers">>
        ELSE <<"on-demand", "Large knowledge base - load only when explicitly needed">>

\* estimate_loading_strategy(analysis), on analysis['estimated_tokens'] (in
\* tenths) and analysis['total_files'].
EstimateLoadingStrategy(total_tokens10, file_count) ==
    IF total_tokens10 < AlwaysTokens * 10 /\ file_count < AlwaysFiles
    THEN <<"always", "Small knowledge base - can load most content">>
    ELSE IF total_tokens10 < SelectiveTokens * 10 /\ file_count < SelectiveFiles
    THEN <<"selective", "Medium knowledge base - use keyword or topic-based triggers">>
    ELSE <<"on-demand", "Large knowledge base - load only when explicitly needed">>

LsInit ==
    /\ ls_tokens10 \in LsTokenInputs
    /\ ls_files \in LsFileInputs
    /\ ls_result = None

LsIdle ==
    /\ ls_tokens10 = 0
    /\ ls_files = 0
    /\ ls_result = None

\* One call of estimate_loading_strategy on the drawn inputs.
LsEstimate ==
    /\ ls_result = None
    /\ ls_result' = EstimateLoadingStrategy(ls_tokens10, ls_files)
    /\ UNCHANGED <<ls_tokens10, ls_files>>

(***************************************************************************)
(* init_knowledge_skill.py: create_skill and main                          *)
(*                                                                         *)
(* The file system under the output path is a record [dirs, files]: dirs   *)
(* the directories and files the regular files, each named by its path     *)
(* relative to Path(output_path); <<>> is the output path itself.          *)
(***************************************************************************)

\* Characters beyond ASCII for which str.islower() holds, and their
\* upper-case forms.
OtherLower == {"é"}
OtherUpper == {"É"}

\* c.islower(), c.isdigit() on one character.
IsLower(c) == c \in CharsOf(LowerAlpha) \cup OtherLower
IsDigit(c) == c \in CharsOf(DigitChars)

\* create_skill: the longest name taken.
MaxSkillNameLen == 64

\* Mutant: the test of the length is left out.
NameAcceptedAnyLength(skill_name) ==
    \A i \in 1..Len(skill_name) :
        LET c == CharAt(skill_name, i) IN IsLower(c) \/ IsDigit(c) \/ c = "-"

\* create_skill, "Validate skill name": all(...) over the characters, which
\* holds of the empty string, and len(skill_name) > 64.
NameAccepted(skill_name) ==
    /\ \A i \in 1..Len(skill_name) :
          LET c == CharAt(skill_name, i) IN IsLower(c) \/ IsDigit(c) \/ c = "-"
    /\ ~(Len(skill_name) > MaxSkillNameLen)

\* Path(output_path) / skill_name: joining the empty string leaves the
\* output path.
SkillPath(skill_name) == IF skill_name = "" THEN <<>> ELSE <<skill_name>>

\* path.exists()
PathExists(fs, path) == path \in fs.dirs \/ \E f \in fs.files : f.path = path

\* path.mkdir(parents=True) on a path that does not exist.
MkdirParents(fs, path) ==
    [fs EXCEPT !.dirs = @ \cup { SubSeq(path, 1, k) : k \in 0..Len(path) }]

\* path.write_text(text)
WriteText(fs, path, text) ==
    [fs EXCEPT !.files = { f \in @ : f.path # path }
                            \cup {[path |-> path, text |-> text]}]

\* The four mkdir calls of create_skill.
MakeSkeleton(fs, skill_path) ==
    LET a == MkdirParents(fs, skill_path)
        b == MkdirParents(a, skill_path \o <<"scripts">>)
        c == MkdirParents(b, skill_path \o <<"references">>)
    IN  MkdirParents(c, skill_path \o <<"assets", "templates">>)

\* s.replace('-', ' ')
RECURSIVE ReplaceHyphens(_)
ReplaceHyphens(s) ==
    IF s = "" THEN ""
    ELSE IF Len(s) = 1 THEN (IF s = "-" THEN " " ELSE s)
    ELSE ReplaceHyphens(SubSeq(s, 1, Len(s) \div 2))
             \o ReplaceHyphens(SubSeq(s, (Len(s) \div 2) + 1, Len(s)))

IsCased(c) == IsLower(c) \/ c \in UpperChars \/ c \in OtherUpper

UpperChar(c) ==
    IF c \in CharsOf(LowerAlpha)
    THEN CharAt(UpperAlpha, CHOOSE i \in 1..26 : CharAt(LowerAlpha, i) = c)
    ELSE IF c \in OtherLower THEN "É"
    ELSE c

\* The characters lo..hi of s.title(): a cased character is upper-cased
\* when the character before it is not cased and lower-cased otherwise.
RECURSIVE TitleRange(_, _, _)
TitleRange(s, lo, hi) ==
    IF lo > hi THEN ""
    ELSE IF lo = hi
    THEN LET c == CharAt(s, lo)
         IN  IF lo > 1 /\ IsCased(CharAt(s, lo - 1))
             THEN (IF c \in OtherUpper THEN "é" ELSE LowerChar(c))
             ELSE UpperChar(c)
    ELSE LET mid == (lo + hi) \div 2
         IN  TitleRange(s, lo, mid) \o TitleRange(s, mid + 1, hi)

\* s.title()
Title(s) == TitleRange(s, 1, Len(s))

\* The templates, each by its first lines up to the title: the text after
\* the title holds no placeholder.
TemplateDescription(template) ==
    CASE template = "GENERIC_TEMPLATE" ->
           "description: [TODO: Brief description of what this skill"
             \o " does and when to use it (max 1024 chars)]"
      [] template = "KNOWLEDGE_RETRIEVAL_TEMPLATE" ->
           "description: [TODO: Search, retrieve, and cite knowledge"
             \o " from [your domain]. Use when users ask questions about"
             \o " [topics] or need information from [knowledge base name].]"
      [] template = "FRAMEWORK_GUIDANCE_TEMPLATE" ->
           "description: [TODO: Guide users through [framework name]"
             \o " completion with templates, examples, and interactive"
             \o " support. Use when users mention \"[framework name]\", need"
             \o " templates, or request help with [framework purpose].]"
      [] template = "TRANSLATION_TEMPLATE" ->
           "description: [TODO: Translate markdown knowledge content"
             \o " while preserving structure, frontmatter, and links. Use"
             \o " when users request translation or mention target"
             \o " languages.]"

\* Replacement fields of a template other than {skill_name} and
\* {skill_title}: TRANSLATION_TEMPLATE holds '{ en: governance-guide.md }'.
UnknownFields(template) ==
    IF template = "TRANSLATION_TEMPLATE" THEN {" en"} ELSE {}

\* templates.get(template_type, GENERIC_TEMPLATE)
TemplateOf(template_type) ==
    CASE template_type = "generic" -> "GENERIC_TEMPLATE"
      [] template_type = "knowledge-retrieval" -> "KNOWLEDGE_RETRIEVAL_TEMPLATE"
      [] template_type = "framework-guidance" -> "FRAMEWORK_GUIDANCE_TEMPLATE"
      [] template_type = "knowledge-translation" -> "TRANSLATION_TEMPLATE"
      [] OTHER -> "GENERIC_TEMPLATE"

\* template.format(skill_name=..., skill_title=...): KeyError on a field
\* that is not among the keyword arguments, else the text with the two
\* placeholders filled.
Format(template, skill_name, skill_title) ==
    [raises |-> UnknownFields(template) # {},
     text |-> [template |-> template,
               lines |-> <<"---",
                           "name: " \o skill_name,
                           TemplateDescription(template),
                           "---",
                           "",
                           "# " \o skill_title>>]]

QuickReference(skill_title) ==
    [template |-> "quick-reference",
     lines |-> <<"# Quick Reference for " \o skill_title, "",
                 "[TODO: Add frequently-used patterns, API signatures, or common examples]">>]

BlankTemplate ==
    [template |-> "blank-template",
     lines |-> <<"# [TODO: Framework Name]", "", "[TODO: Add blank template sections]">>]

\* The three write_text calls of create_skill.
WriteSkillFiles(fs, skill_path, template_type, skill_content, skill_title) ==
    LET a == WriteText(fs, skill_path \o <<"SKILL.md">>, skill_content)
        b == WriteText(a, skill_path \o <<"references", "quick-reference.md">>,
                       QuickReference(skill_title))
    IN  IF template_type = "framework-guidance"
        THEN WriteText(b, skill_path \o <<"assets", "templates", "blank-template.md">>,
                       BlankTemplate)
        ELSE b

\* create_skill up to the test of skill_path.exists(): the three returns of
\* False, none of which has touched the file system.
CsCheck ==
    /\ cs_pc = "create_skill"
    /\ cs_pc' = IF /\ NameAccepted(cs_args.skill_name)
                   /\ ~PathExists(cs_fs, SkillPath(cs_args.skill_name))
                THEN "mkdir" ELSE "returned False"
    /\ UNCHANGED <<cs_args, cs_fs, cs_exit>>

\* create_skill: the directories.
CsMakeDirs ==
    /\ cs_pc = "mkdir"
    /\ cs_fs' = MakeSkeleton(cs_fs, SkillPath(cs_args.skill_name))
    /\ cs_pc' = "format"
    /\ UNCHANGED <<cs_args, cs_exit>>

\* create_skill from "Select template" to its return of True; a KeyError
\* raised by format leaves the function before anything is written.
CsWriteFiles ==
    /\ cs_pc = "format"
    /\ LET skill_title == Title(ReplaceHyphens(cs_args.skill_name))
           skill_content == Format(TemplateOf(cs_args.template_type),
                                   cs_args.skill_name, skill_title)
       IN  IF skill_content.raises
           THEN /\ cs_pc' = "raised"
                /\ UNCHANGED cs_fs
           ELSE /\ cs_pc' = "returned True"
                /\ cs_fs' = WriteSkillFiles(cs_fs, SkillPath(cs_args.skill_name),
                                            cs_args.template_type, skill_content.text,
                                            skill_title)
    /\ UNCHANGED <<cs_args, cs_exit>>

\* main: sys.exit(1) when create_skill returned False, the interpreter's
\* exit with 1 on the uncaught exception, else the end of main.
CsMainExit ==
    /\ cs_args.caller = "main"
    /\ cs_pc \in {"returned True", "returned False", "raised"}
    /\ cs_pc' = "exited"
    /\ cs_exit' = IF cs_pc = "returned True" THEN 0 ELSE 1
    /\ UNCHANGED <<cs_args, cs_fs>>

\* The calls drawn: the names the validator is run on and names of
\* characters beyond ASCII; the types main's --type admits and one it does
\* not, which only a direct call can pass.
CsNames ==
    { n.s : n \in { v \in NameInputs : IsStr(v) } }
        \cup { "café", "é", "-", "skill-2-go", "a--b" }

TypeChoices ==
    {"generic", "knowledge-retrieval", "framework-guidance", "knowledge-translation"}

CsArgs ==
    { a \in [skill_name : CsNames, template_type : TypeChoices \cup {"custom"},
             caller : {"main", "import"}] :
        a.caller = "main" => a.template_type \in TypeChoices }

OldSkillMd == [template |-> "edited", lines |-> <<"---", "name: kept", "---">>]

\* The file systems drawn for a skill path: no output directory, an empty
\* one, one that holds the skill directory with an edited SKILL.md, and one
\* that holds a regular file of the skill's name.
CsFileSystems(skill_path) ==
    { [dirs |-> {}, files |-> {}],
      [dirs |-> {<<>>}, files |-> {}],
      [dirs |-> {<<>>, skill_path, skill_path \o <<"references">>},
       files |-> {[path |-> skill_path \o <<"SKILL.md">>, text |-> OldSkillMd]}] }
        \cup IF skill_path = <<>> THEN {}
             ELSE {[dirs |-> {<<>>}, files |-> {[path |-> skill_path, text |-> OldSkillMd]}]}

CsInit ==
    /\ cs_args \in CsArgs
    /\ cs_fs \in CsFileSystems(SkillPath(cs_args.skill_name))
    /\ cs_pc = "create_skill"
    /\ cs_exit = NoExit

CsIdle ==
    /\ cs_args = [skill_name |-> "my-skill", template_type |-> "generic", caller |-> "main"]
    /\ cs_fs = [dirs |-> {}, files |-> {}]
    /\ cs_pc = "create_skill"
    /\ cs_exit = NoExit

(***************************************************************************)
(* analyze_knowledge_repo.py: generate_report and main                     *)
(***************************************************************************)

TopFields == 10
TopReportTags == 10
TopBacklinks == 5
TopFiles == 10
ShownTopics == 10
KeywordTopics == 5
ReferenceTopics == 3

\* seq[:n]
Take(seq, n) == SubSeq(seq, 1, IF Len(seq) < n THEN Len(seq) ELSE n)

\* sorted(seq, key=Key, reverse=True): descending keys, elements of equal
\* key in their order in seq.
SortedReverse(seq, Key(_)) ==
    LET Before(i, j) == Key(seq[i]) > Key(seq[j]) \/ (Key(seq[i]) = Key(seq[j]) /\ i < j)
        Rank(i) == 1 + Cardinality({ j \in 1..Len(seq) : Before(j, i) })
    IN  [r \in 1..Len(seq) |-> seq[CHOOSE i \in 1..Len(seq) : Rank(i) = r]]

\* repr() of a tag.
Repr(v) ==
    CASE v.t = "str" -> "'" \o v.s \o "'"
      [] v.t = "null" -> "None"
      [] OTHER -> v.s

\* str(analysis['tags']): the repr of the Counter, its entries in
\* most_common order.
CounterStr(counter) ==
    LET sorted == MostCommon(counter, Len(counter))
        Entry(e) == Repr(e.key) \o ": " \o ToString(e.n)
    IN  IF counter = <<>> THEN "Counter()"
        ELSE "Counter({" \o Join([i \in 1..Len(sorted) |-> Entry(sorted[i])], ", ") \o "})"

\* Mutant: the tags are tested as they are written.
SkillTypeCaseSensitive(tags) ==
    IF Contains(CounterStr(tags), "template") \/ Contains(CounterStr(tags), "framework")
    THEN "framework-guidance" ELSE "knowledge-retrieval"

\* generate_report, "Recommend skill type based on content".
SkillType(tags) ==
    LET text == Lower(CounterStr(tags))
    IN  IF Contains(text, "template") \/ Contains(text, "framework")
        THEN "framework-guidance" ELSE "knowledge-retrieval"

\* generate_report: whether it raises (a division by total_files = 0, a
\* str method on a topic that is no str), and what it puts in the report
\* otherwise.
GenerateReport(a) ==
    LET strategy == EstimateLoadingStrategy(a.estimated_tokens10, a.total_files)[1]
        References(e) == Len(e.refs)
        Tokens(f) == f.estimated_tokens10
        named == Take(a.topics, ReferenceTopics)
    IN  [raises |-> a.total_files = 0 \/ \E i \in 1..Len(named) : ~IsStr(named[i]),
         report |->
           [generated |-> TRUE,
            written_to |-> "nowhere",
            topics |-> Take(a.topics, ShownTopics),
            frontmatter_fields |-> MostCommon(a.frontmatter_fields, TopFields),
            top_tags |-> MostCommon(a.tags, TopReportTags),
            top_backlinks |->
                IF Len(a.wikilinks) > 0
                THEN Take(SortedReverse(a.backlinks, References), TopBacklinks)
                ELSE <<>>,
            skill_type |-> SkillType(a.tags),
            loading_strategy |-> strategy,
            keywords |-> IF strategy = "selective" THEN Take(a.topics, KeywordTopics)
                         ELSE <<>>,
            top_files |-> Take(SortedReverse(a.files, Tokens), TopFiles)]]

\* Mutant: main reports whatever analyze_repository returned.
MainReportsAlways(pc) == pc \in {"returned", "returned None"}

\* main: `if analysis:` holds for the dict analyze_repository returns and
\* fails for None.
MainReports(pc) == pc = "returned"

\* main: generate_report on the analysis; the report is written to --output
\* or printed, and main ends; an exception raised ends the program.
AnGenerateReport ==
    /\ an_pc \in {"returned", "returned None"}
    /\ MainReports(an_pc)
    /\ LET r == GenerateReport(analysis)
       IN  IF r.raises
           THEN /\ an_pc' = "report crashed"
                /\ an_exit' = 1
                /\ UNCHANGED an_report
           ELSE /\ an_pc' = "exited"
                /\ an_exit' = 0
                /\ an_report' =
                     [r.report EXCEPT
                        !.written_to = IF an_output # None THEN an_output ELSE "stdout"]
    /\ UNCHANGED <<repo_exists, md_files, analysis, an_output>>

\* main: sys.exit(1) when analyze_repository returned None.
AnExitWithoutAnalysis ==
    /\ an_pc \in {"returned", "returned None"}
    /\ ~MainReports(an_pc)
    /\ an_pc' = "exited"
    /\ an_exit' = 1
    /\ UNCHANGED <<repo_exists, md_files, analysis, an_output, an_report>>

StrategyInit == LsInit /\ VaIdle /\ PkIdle /\ AnIdle /\ CsIdle
StrategyNext == LsEstimate /\ UNCHANGED <<vaVars, pkVars, anVars, csVars>>
StrategySpec == StrategyInit /\ [][StrategyNext]_vars

\* validate_skill.py run on a skill directory.
ValidatorInit == VaInit /\ LsIdle /\ PkIdle /\ AnIdle /\ CsIdle
ValidatorNext ==
    \/ VaCheckSkillMdExists /\ UNCHANGED <<lsVars, pkVars, anVars, csVars>>
    \/ VaParseSkillMd /\ UNCHANGED <<lsVars, pkVars, anVars, csVars>>
    \/ VaCheckFrontmatter /\ UNCHANGED <<lsVars, pkVars, anVars, csVars>>
    \/ VaCheckContent /\ UNCHANGED <<lsVars, pkVars, anVars, csVars>>
    \/ VaCheckDirectoryStructure /\ UNCHANGED <<lsVars, pkVars, anVars, csVars>>
    \/ VaCheckReferences /\ UNCHANGED <<lsVars, pkVars, anVars, csVars>>
    \/ VaReport /\ UNCHANGED <<lsVars, pkVars, anVars, csVars>>
ValidatorSpec == ValidatorInit /\ [][ValidatorNext]_vars

\* package_skill.py run on a skill directory; the validator runs as its
\* subprocess between PkRunValidator and PkValidatorEnded.
InSubprocess == pk_pc = "subprocess"
PackagerInit == PkInit /\ LsIdle /\ AnIdle /\ CsIdle
PackagerNext ==
    \/ PkMain /\ UNCHANGED <<lsVars, vaVars, anVars, csVars>>
    \/ PkValidateWithoutRun /\ UNCHANGED <<lsVars, vaVars, anVars, csVars>>
    \/ PkRunValidator /\ UNCHANGED <<lsVars, vaVars, anVars, csVars>>
    \/ InSubprocess /\ VaCheckSkillMdExists /\ UNCHANGED <<lsVars, pkVars, anVars, csVars>>
    \/ InSubprocess /\ VaParseSkillMd /\ UNCHANGED <<lsVars, pkVars, anVars, csVars>>
    \/ InSubprocess /\ VaCheckFrontmatter /\ UNCHANGED <<lsVars, pkVars, anVars, csVars>>
    \/ InSubprocess /\ VaCheckContent /\ UNCHANGED <<lsVars, pkVars, anVars, csVars>>
    \/ InSubprocess /\ VaCheckDirectoryStructure /\ UNCHANGED <<lsVars, pkVars, anVars, csVars>>
    \/ InSubprocess /\ VaCheckReferences /\ UNCHANGED <<lsVars, pkVars, anVars, csVars>>
    \/ InSubprocess /\ VaReport /\ UNCHANGED <<lsVars, pkVars, anVars, csVars>>
    \/ PkValidatorEnded /\ UNCHANGED <<lsVars, vaVars, anVars, csVars>>
    \/ PkPackageSkill /\ UNCHANGED <<lsVars, vaVars, anVars, csVars>>
PackagerSpec == PackagerInit /\ [][PackagerNext]_vars

\* analyze_repository run on a corpus.
AnalyzerInit == AnInit /\ LsIdle /\ VaIdle /\ PkIdle /\ CsIdle
AnalyzerNext ==
    \/ AnScan /\ UNCHANGED <<lsVars, vaVars, pkVars, csVars>>
    \/ AnAnalyzeFile /\ UNCHANGED <<lsVars, vaVars, pkVars, csVars>>
    \/ AnFinish /\ UNCHANGED <<lsVars, vaVars, pkVars, csVars>>
    \/ AnGenerateReport /\ UNCHANGED <<lsVars, vaVars, pkVars, csVars>>
    \/ AnExitWithoutAnalysis /\ UNCHANGED <<lsVars, vaVars, pkVars, csVars>>
AnalyzerSpec == AnalyzerInit /\ [][AnalyzerNext]_vars

\* init_knowledge_skill.py: create_skill called by main or directly.
InitializerInit == CsInit /\ LsIdle /\ VaIdle /\ PkIdle /\ AnIdle
InitializerNext ==
    \/ CsCheck /\ UNCHANGED <<lsVars, vaVars, pkVars, anVars>>
    \/ CsMakeDirs /\ UNCHANGED <<lsVars, vaVars, pkVars, anVars>>
    \/ CsWriteFiles /\ UNCHANGED <<lsVars, vaVars, pkVars, anVars>>
    \/ CsMainExit /\ UNCHANGED <<lsVars, vaVars, pkVars, anVars>>
InitializerSpec == InitializerInit /\ [][InitializerNext]_vars

(***************************************************************************)
(* Claims                                                                  *)
(***************************************************************************)

LsReturned == ls_result # None
LsLabel == ls_result[1]

\* C1: estimate_loading_strategy returns 'always' iff tokens < 5000 and
\* files < 10; otherwise 'selective' iff tokens < 20000 and files < 50;
\* otherwise 'on-demand'.  Upper bounds are exclusive: (4999, 9) gives
\* 'always', (5000, 9) and (19999, 49) give 'selective', (20000, 1) gives
\* 'on-demand'.  Every input yields one of the three labels.
C1_LoadingStrategyTable ==
    LsReturned =>
        LET small == ls_tokens10 < 50000 /\ ls_files < 10
            medium == ls_tokens10 < 200000 /\ ls_files < 50
        IN  /\ LsLabel \in {"always", "selective", "on-demand"}
            /\ (LsLabel = "always") <=> small
            /\ (LsLabel = "selective") <=> (~small /\ medium)
            /\ (LsLabel = "on-demand") <=> (~small /\ ~medium)
            /\ (ls_tokens10 = 49990 /\ ls_files = 9) => LsLabel = "always"
            /\ (ls_tokens10 = 50000 /\ ls_files = 9) => LsLabel = "selective"
            /\ (ls_tokens10 = 199990 /\ ls_files = 49) => LsLabel = "selective"
            /\ (ls_tokens10 = 200000 /\ ls_files = 1) => LsLabel = "on-demand"

\* C1 witness: the call returned 'selective' exactly at the token boundary.
C1_Witness ==
    /\ LsReturned
    /\ ls_tokens10 = 50000
    /\ ls_files = 9
    /\ LsLabel = "selective"

\* check_frontmatter has run to its end.
FrontmatterChecked ==
    va_pc \in {"check_content", "check_directory_structure", "check_references",
               "report", "returned"}

Recorded(msgs) == \E i \in 1..Len(errors) : errors[i] \in msgs

\* A non-empty string of lowercase ASCII letters, digits and hyphens.
WellFormedName(s) ==
    /\ s # ""
    /\ \A i \in 1..Len(s) :
          \/ Contains(LowerAlpha, CharAt(s, i))
          \/ Contains(DigitChars, CharAt(s, i))
          \/ CharAt(s, i) = "-"

\* C8: for a frontmatter with a string 'name', the validator records an
\* error for the name iff the name is not a non-empty string of lowercase
\* ASCII letters, digits and hyphens, or is longer than 64 characters.
C8_NameErrorIff ==
    (FrontmatterChecked /\ IsDict(frontmatter) /\ HasKey(frontmatter, "name")
        /\ IsStr(Get(frontmatter, "name")))
    => LET name == Get(frontmatter, "name").s
       IN  Recorded({E_NameFormat, E_NameLength})
               <=> (~WellFormedName(name) \/ Len(name) > 64)

\* C9: for a frontmatter with a 'description', the validator records an
\* error for the description iff it is not a string, or is empty or
\* whitespace-only, or is longer than 1024 characters; exactly 1024
\* characters give no error and 1025 give one.
C9_DescriptionErrorIff ==
    (FrontmatterChecked /\ IsDict(frontmatter) /\ HasKey(frontmatter, "description"))
    => LET d == Get(frontmatter, "description")
           blank == \A i \in 1..Len(d.s) : CharAt(d.s, i) \in Whitespace
           recorded == Recorded({E_DescType, E_DescLength, E_DescEmpty})
       IN  /\ recorded <=> (d.t # "str" \/ blank \/ Len(d.s) > 1024)
           /\ (d.t = "str" /\ ~blank /\ Len(d.s) = 1024) => ~recorded
           /\ (d.t = "str" /\ Len(d.s) = 1025) => recorded

\* C9 witness: a description of exactly 1024 characters was checked and no
\* error was recorded for it.
C9_Witness ==
    /\ va_pc = "returned"
    /\ IsDict(frontmatter)
    /\ HasKey(frontmatter, "description")
    /\ Get(frontmatter, "description").t = "str"
    /\ Len(Get(frontmatter, "description").s) = 1024
    /\ ~Recorded({E_DescType, E_DescLength, E_DescEmpty})
    /\ va_exit = 0

\* SKILL.md is readable and has no frontmatter block, a block that does not
\* parse, or a block that parses to something other than a mapping.
FrontmatterUnusable ==
    /\ skill_dir.has_skill_md
    /\ skill_dir.readable
    /\ \/ FrontmatterMatch(skill_dir.skill_md) = 0
       \/ SafeLoad(FrontmatterGroup(skill_dir.skill_md)).error
       \/ ~IsDict(SafeLoad(FrontmatterGroup(skill_dir.skill_md)).value)

\* C10: validate_all always ends by returning report()'s result; no check
\* raises.  When SKILL.md has no frontmatter, unparseable frontmatter or a
\* non-mapping frontmatter, the outcome is an entry in the errors list.
C10_ValidateAllReturns ==
    /\ va_pc # "crashed"
    /\ (va_pc = "returned" /\ FrontmatterUnusable) => errors # <<>>

ArchiveWritten == zip_file.exists /\ ~zip_file.old
ValidatorFoundErrors == errors # <<>>
ValidationSucceeded == va_pc = "returned" /\ va_exit = 0
ValidatorNotRun == ~pk_env.validate_script_exists \/ pk_env.run_raises

\* When the validator found an error and --skip-validation was not given,
\* main exits with failure before package_skill: nothing is created.
ErrorsBlockPackaging ==
    (~pk_args.skip_validation /\ ValidatorFoundErrors)
    => /\ pk_pc \in {"subprocess", "exited"}
       /\ pk_pc = "exited" => pk_exit = 1
       /\ ~ArchiveWritten
       /\ out_dir = "missing"

Extracted(entries) == { File(SplitPath(e.arcname), e.bytes) : e \in entries }

\* A path below the skill directory with a component starting with '.'.
Hidden(rel) == \E i \in 1..Len(rel) : CharAt(rel[i], 1) = "."

\* A .pyc or .pyo file, or a file of a __pycache__ directory.
CompiledArtifact(rel) ==
    \/ \E ext \in {".pyc", ".pyo"} :
          /\ Len(rel[Len(rel)]) > Len(ext)
          /\ SubSeq(rel[Len(rel)], Len(rel[Len(rel)]) - Len(ext) + 1, Len(rel[Len(rel)])) = ext
    \/ \E i \in 1..(Len(rel) - 1) : rel[i] = "__pycache__"

\* C7: packaging then extracting reproduces every file of the skill
\* directory that is neither hidden nor a compiled artifact, with the same
\* bytes and the same path relative to the skill directory's parent,
\* whatever path named the skill directory on the command line.
C7_PackageRoundTrip ==
    (pk_pc = "exited" /\ pk_exit = 0)
    => \A f \in AllFiles(skill_dir) :
          (~Hidden(f.path) /\ ~CompiledArtifact(f.path))
          => File(<<PathName(pk_args.skill_path)>> \o f.path, f.bytes)
                 \in Extracted(zip_file.entries)

\* The same round trip for skill paths none of whose parts starts with '.'.
RoundTripOnPlainPaths ==
    (pk_pc = "exited" /\ pk_exit = 0
        /\ \A i \in 1..Len(pk_args.skill_path) : CharAt(pk_args.skill_path[i], 1) # ".")
    => \A f \in AllFiles(skill_dir) :
          (~Hidden(f.path) /\ ~CompiledArtifact(f.path))
          => File(<<PathName(pk_args.skill_path)>> \o f.path, f.bytes)
                 \in Extracted(zip_file.entries)


(***************************************************************************)
(* analyze_repository: backlinks, totals and frontmatter                   *)
(***************************************************************************)

\* analyze_repository returned its analysis, which main does not change.
AnReturned ==
    \/ an_pc \in {"returned", "report crashed"}
    \/ an_pc = "exited" /\ repo_exists
AnCrashed == an_pc = "crashed"

\* How many elements of a sequence equal x.
Occurrences(seq, x) == Cardinality({ i \in 1..Len(seq) : seq[i] = x })

\* backlinks[t]: the list under key t, empty when t is no key.
BacklinksOf(t) ==
    LET b == analysis.backlinks
    IN  IF \E i \in 1..Len(b) : b[i].key = t
        THEN b[CHOOSE i \in 1..Len(b) : b[i].key = t].refs
        ELSE <<>>

LinkTargets ==
    { analysis.wikilinks[i] : i \in 1..Len(analysis.wikilinks) }
        \cup { analysis.backlinks[i].key : i \in 1..Len(analysis.backlinks) }

\* C2: after analyze_repository returned, for every link target t and every
\* file f, f's relative path occurs in backlinks[t] as many times as t occurs
\* in f's wikilinks; and every element of the flat wikilinks list is a key of
\* backlinks whose list holds a file that links to it.
C2_BacklinksPerOccurrence ==
    AnReturned =>
        /\ \A t \in LinkTargets : \A i \in 1..Len(analysis.files) :
              Occurrences(BacklinksOf(t), analysis.files[i].relative_path)
                  = Occurrences(analysis.files[i].wikilinks, t)
        /\ \A k \in 1..Len(analysis.wikilinks) :
              /\ \E i \in 1..Len(analysis.backlinks) :
                    analysis.backlinks[i].key = analysis.wikilinks[k]
              /\ \E i \in 1..Len(analysis.files) :
                    /\ Occurrences(analysis.files[i].wikilinks, analysis.wikilinks[k]) > 0
                    /\ Occurrences(BacklinksOf(analysis.wikilinks[k]),
                                   analysis.files[i].relative_path) > 0

\* A returned analysis in which one file links twice to the same target and
\* a second file links to it too.
C2_Witness ==
    /\ AnReturned
    /\ \E t \in LinkTargets :
          /\ \E i \in 1..Len(analysis.files) :
                Occurrences(analysis.files[i].wikilinks, t) = 2
          /\ Len(BacklinksOf(t)) = 3

\* C3: after analyze_repository returned, total_files is the length of the
\* files list, estimated_tokens is the sum of the per-file estimates, and
\* each per-file estimate is 1.3 times the number of words of that file.
C3_TotalsAreSums ==
    AnReturned =>
        /\ analysis.total_files = Len(analysis.files)
        /\ LET Estimate(f) == f.estimated_tokens10
           IN  analysis.estimated_tokens10 = SumOver(analysis.files, Estimate)
        /\ Len(analysis.files) = Len(md_files)
        /\ \A i \in 1..Len(analysis.files) :
              LET Words(ln) == ln.words
              IN  analysis.files[i].estimated_tokens10
                      = 13 * SumOver(md_files[i].text.lines, Words)

\* A returned analysis of two files with different, non-zero estimates.
C3_Witness ==
    /\ AnReturned
    /\ Len(analysis.files) = 2
    /\ analysis.files[1].estimated_tokens10 > 0
    /\ analysis.files[2].estimated_tokens10 > analysis.files[1].estimated_tokens10
    /\ analysis.files[1].size # analysis.files[1].estimated_tokens10

\* C4: whatever a file's leading '---' block holds, analyze_file raises no
\* error and leaves a frontmatter that is a mapping, and analyze_repository
\* goes on to the other files: no run ends in an exception, every file_info
\* holds a mapping, and a returned analysis holds every file of the corpus.
C4_AnyBlockIsTolerated ==
    /\ ~AnCrashed
    /\ \A i \in 1..Len(analysis.files) : IsDict(analysis.files[i].frontmatter)
    /\ AnReturned => Len(analysis.files) = Len(md_files)

\* The closing line of a leading '---' block: the first line '---' after a
\* body of at least one line, whether or not a newline follows it; 0 when
\* the text has no such block.
BlockCloser(text) ==
    LET l == text.lines
        closers == { j \in 3..Len(l) : l[j].k = "delim" }
    IN  IF Len(l) >= 1 /\ l[1].k = "delim" /\ closers # {}
        THEN MinOf(closers) ELSE 0

BlockLoaded(text) == SafeLoad(SubSeq(text.lines, 2, BlockCloser(text) - 1))

\* C5: a file that starts with a '---' block whose body is a YAML mapping,
\* the closing '---' being possibly the last line of the file, gets that
\* mapping as its frontmatter; a file without a block, or whose block is not
\* YAML, gets the empty mapping.
C5_FrontmatterIsParsedMapping ==
    \A i \in 1..Len(analysis.files) :
        LET text == md_files[i].text
            fm == analysis.files[i].frontmatter
        IN  IF BlockCloser(text) = 0 THEN fm = EmptyDict
            ELSE IF BlockLoaded(text).error THEN fm = EmptyDict
            ELSE IsDict(BlockLoaded(text).value) => fm = BlockLoaded(text).value


(***************************************************************************)
(* package_skill: overwriting an existing archive                          *)
(***************************************************************************)

\* package_skill got as far as the archive path: the skill path is a
\* directory that holds SKILL.md.
ReachesArchivePath == pk_env.kind = "dir" /\ skill_dir.has_skill_md

\* C11: when the archive path already exists and the answer to the prompt
\* is anything but 'y' or 'Y', package_skill returns failure (main exits
\* with 1) and the file at that path stays as it was.
C11_DeclinedOverwriteKeepsFile ==
    [][(/\ pk_pc = "package_skill"
        /\ ReachesArchivePath
        /\ zip_file.exists
        /\ pk_env.response \notin {"y", "Y"})
          => (zip_file' = zip_file /\ pk_exit' = 1 /\ pk_pc' = "exited")]_vars

\* The packager ran without validation on a skill directory whose archive
\* existed, the answer was empty, and it exited with failure, the old file
\* still in place.
C11_Witness ==
    /\ pk_pc = "exited"
    /\ pk_exit = 1
    /\ pk_args.skip_validation
    /\ ReachesArchivePath
    /\ pk_env.response = ""
    /\ zip_file = OldFile


(***************************************************************************)
(* Warnings do not fail the validator                                      *)
(***************************************************************************)

\* C12: the validator ends with status 0 iff its errors list is empty,
\* whatever its warnings; and when the packager's validator run ends with an
\* empty errors list, the packager goes on to package_skill instead of
\* exiting.
C12_OnlyErrorsFail ==
    [][/\ va_exit' # NoExit => (va_exit' = 0 <=> errors' = <<>>)
       /\ (InSubprocess /\ pk_pc' # pk_pc /\ errors = <<>>)
             => (pk_pc' = "package_skill" /\ pk_exit' = NoExit)]_vars

\* The validator run by the packager found warnings and no error, and the
\* packager wrote the archive.
C12_Witness ==
    /\ pk_pc = "exited"
    /\ pk_exit = 0
    /\ ~pk_args.skip_validation
    /\ va_exit = 0
    /\ errors = <<>>
    /\ Len(warnings) >= 2
    /\ ArchiveWritten


(***************************************************************************)
(* analyze_knowledge_repo.py: a corpus root that does not exist            *)
(***************************************************************************)

\* C13: when the corpus root does not exist, analyze_repository returns no
\* analysis (the run never enters the loop and nothing is aggregated),
\* generate_report is never called, so no report is printed or written, and
\* when main ends it ends with a failure status.
C13_MissingRootFails ==
    ~repo_exists =>
        /\ an_pc \in {"analyze_repository", "returned None", "exited"}
        /\ analysis = NewAnalysis
        /\ an_report = NoReport
        /\ an_exit = IF an_pc = "exited" THEN 1 ELSE NoExit

\* The analyzer was pointed at a missing root with --output and has exited.
C13_Witness ==
    /\ ~repo_exists
    /\ an_output = "analysis.md"
    /\ an_pc = "exited"
    /\ an_exit = 1
    /\ ~an_report.generated


(***************************************************************************)
(* analyze_repository: the frequency tables                                *)
(***************************************************************************)

\* counter[key], 0 for a key the Counter does not hold.
CountOf(counter, key) ==
    IF \E i \in 1..Len(counter) : counter[i].key = key
    THEN counter[CHOOSE i \in 1..Len(counter) : counter[i].key = key].n
    ELSE 0

\* A table holds each key once, with a positive count.
WellFormedCounter(counter) ==
    /\ \A i, j \in 1..Len(counter) : counter[i].key = counter[j].key => i = j
    /\ \A i \in 1..Len(counter) : counter[i].n > 0

FieldNames ==
    { analysis.frontmatter_fields[i].key : i \in 1..Len(analysis.frontmatter_fields) }
        \cup UNION { { analysis.files[i].frontmatter.m[j].key :
                          j \in 1..Len(analysis.files[i].frontmatter.m) } :
                     i \in 1..Len(analysis.files) }

\* C14: after analyze_repository returned, frontmatter_fields[k] is, for
\* every field name k, the number of files whose frontmatter mapping has the
\* key k.
C14_FieldCountsAreFileCounts ==
    AnReturned =>
        /\ WellFormedCounter(analysis.frontmatter_fields)
        /\ \A k \in FieldNames :
              CountOf(analysis.frontmatter_fields, k)
                  = Cardinality({ i \in 1..Len(analysis.files) :
                                     HasKey(analysis.files[i].frontmatter, k) })

\* A returned analysis where one field is held by two files, one of which
\* holds a second field too.
C14_Witness ==
    /\ AnReturned
    /\ \E k \in FieldNames : CountOf(analysis.frontmatter_fields, k) = 2
    /\ \E i \in 1..Len(analysis.files) : Len(analysis.files[i].frontmatter.m) = 2
    /\ Len(analysis.frontmatter_fields) = 2

\* The tag sequence of the i-th file: the frontmatter 'tags' value, a list
\* as it is or a single string as one tag, then the hashtags of the text.
TagSequence(i) ==
    LET fm == analysis.files[i].frontmatter
        lines == md_files[i].text.lines
        declared == IF ~HasKey(fm, "tags") THEN <<>>
                    ELSE IF IsList(Get(fm, "tags")) THEN Get(fm, "tags").items
                    ELSE IF IsStr(Get(fm, "tags")) THEN <<Get(fm, "tags")>>
                    ELSE <<>>
        Hashtags[k \in 0..Len(lines)] ==
            IF k = 0 THEN <<>>
            ELSE Hashtags[k - 1]
                    \o [h \in 1..Len(lines[k].hashtags) |-> YStr(lines[k].hashtags[h])]
    IN  declared \o Hashtags[Len(lines)]

TagNames ==
    { analysis.tags[i].key : i \in 1..Len(analysis.tags) }
        \cup UNION { { TagSequence(i)[j] : j \in 1..Len(TagSequence(i)) } :
                     i \in 1..Len(analysis.files) }

\* C15: after analyze_repository returned, tags[t] is, for every tag t, the
\* number of occurrences of t in the tag sequences of all files, repeated
\* occurrences counted each.
C15_TagCountsAreOccurrences ==
    AnReturned =>
        /\ WellFormedCounter(analysis.tags)
        /\ \A t \in TagNames :
              LET InFile(f) == Occurrences(TagSequence(CHOOSE i \in 1..Len(analysis.files) :
                                                          analysis.files[i] = f), t)
              IN  CountOf(analysis.tags, t) = SumOver(analysis.files, InFile)

\* A returned analysis where a single-string frontmatter tag was counted and
\* one tag was counted three times, twice from one file.
C15_Witness ==
    /\ AnReturned
    /\ CountOf(analysis.tags, YStr("governance")) = 1
    /\ \E t \in TagNames :
          /\ CountOf(analysis.tags, t) = 3
          /\ \E i \in 1..Len(analysis.files) : Occurrences(TagSequence(i), t) = 2


(***************************************************************************)
(* build_directory_tree and identify_topics                                *)
(***************************************************************************)

\* The label of a file: all segments of its path but the last, or the root
\* sentinel for a file of one segment.
LabelOf(path) ==
    IF Len(path) > 1 THEN Join(SubSeq(path, 1, Len(path) - 1), "/") ELSE "root"

DirectlyAtRoot == { i \in 1..Len(md_files) : Len(md_files[i].path) = 1 }

\* C16: in the tree build_directory_tree returned, every label of a file is
\* stored with the number of files of that label and nothing else is stored,
\* and the count under the root sentinel is exactly the number of files
\* directly at the corpus root.
C16_TreeCountsFilesPerLabel ==
    AnReturned =>
        /\ WellFormedCounter(analysis.file_structure)
        /\ { analysis.file_structure[i].key : i \in 1..Len(analysis.file_structure) }
              = { LabelOf(md_files[i].path) : i \in 1..Len(md_files) }
        /\ \A i \in 1..Len(analysis.file_structure) :
              analysis.file_structure[i].n
                  = Cardinality({ j \in 1..Len(md_files) :
                                     LabelOf(md_files[j].path)
                                         = analysis.file_structure[i].key })
        /\ CountOf(analysis.file_structure, "root") = Cardinality(DirectlyAtRoot)


\* The first path segment of every stored label but the root sentinel.
DirectoryTopics ==
    { YStr(SplitPath(analysis.file_structure[i].key)[1]) :
        i \in { j \in 1..Len(analysis.file_structure) :
                   analysis.file_structure[j].key # "root" } }

\* The 10 most frequent tags, all of them when there are fewer: the tags
\* that fewer than 10 others come before, by count and then by insertion.
MostFrequentTags ==
    LET t == analysis.tags
        Before(i, j) == t[i].n > t[j].n \/ (t[i].n = t[j].n /\ i < j)
    IN  { t[j].key : j \in { k \in 1..Len(t) :
                               Cardinality({ i \in 1..Len(t) : Before(i, k) }) < 10 } }

\* C17: the topics identify_topics returned hold no element twice, and
\* their set is the union of the first segments of the directory labels
\* other than the root sentinel and the 10 most frequent tags.
C17_TopicsAreDirectoriesAndTopTags ==
    AnReturned =>
        /\ \A i, j \in 1..Len(analysis.topics) :
              analysis.topics[i] = analysis.topics[j] => i = j
        /\ { analysis.topics[i] : i \in 1..Len(analysis.topics) }
              = DirectoryTopics \cup MostFrequentTags

\* A returned analysis of more than 10 tags, with two directory labels of
\* the same first segment: one directory topic and ten tags.
C17_Witness ==
    /\ AnReturned
    /\ Len(analysis.tags) > 10
    /\ Len(analysis.file_structure) = 2
    /\ Cardinality(DirectoryTopics) = 1
    /\ Len(analysis.topics) = 11


(***************************************************************************)
(* generate_report: the recommended skill type and the top-N selections    *)
(***************************************************************************)

ReportEmitted == an_report.generated

\* A tag that is a string and holds the word, letter case set aside.
TagMentions(tag, word) == tag.t = "str" /\ Contains(Lower(tag.s), word)

\* C18: the report recommends 'framework-guidance' iff some tag of the
\* corpus contains 'template' or 'framework', compared without regard to
\* case, and 'knowledge-retrieval' otherwise, a corpus without tags
\* included.
C18_SkillTypeFollowsTags ==
    ReportEmitted =>
        IF \E i \in 1..Len(analysis.tags) :
              \/ TagMentions(analysis.tags[i].key, "template")
              \/ TagMentions(analysis.tags[i].key, "framework")
        THEN an_report.skill_type = "framework-guidance"
        ELSE an_report.skill_type = "knowledge-retrieval"

\* A report recommending 'framework-guidance' for a corpus whose only tag
\* is 'Templates'.
C18_Witness ==
    /\ ReportEmitted
    /\ Len(analysis.tags) = 1
    /\ analysis.tags[1].key = YStr("Templates")
    /\ an_report.skill_type = "framework-guidance"

\* out is the selection of the n highest entries of all (whose entries
\* differ from each other): descending by Value, entries of equal value in
\* their order in all, and every entry left out comes after every entry
\* taken in that order.
IsTopSelection(out, all, Value(_), n) ==
    LET Pos(x) == CHOOSE i \in 1..Len(all) : all[i] = x
        Ahead(x, y) == Value(x) > Value(y) \/ (Value(x) = Value(y) /\ Pos(x) < Pos(y))
        taken == { out[r] : r \in 1..Len(out) }
    IN  /\ Len(out) = IF Len(all) < n THEN Len(all) ELSE n
        /\ taken \subseteq { all[i] : i \in 1..Len(all) }
        /\ \A r, q \in 1..Len(out) : r < q => Ahead(out[r], out[q])
        /\ \A i \in 1..Len(all) : all[i] \notin taken =>
              \A r \in 1..Len(out) : Ahead(out[r], all[i])

CountValue(e) == e.n
ReferencesValue(e) == Len(e.refs)
TokensValue(f) == f.estimated_tokens10

\* C19: the report's top 10 tags by count, top 5 backlink targets by number
\* of references and top 10 files by estimated tokens are each in descending
\* order of that value, entries of equal value in first-insertion order, and
\* no entry is left out in favour of a lower one.
C19_TopSelectionsAreOrdered ==
    ReportEmitted =>
        /\ IsTopSelection(an_report.top_tags, analysis.tags, CountValue, 10)
        /\ IsTopSelection(an_report.top_backlinks, analysis.backlinks, ReferencesValue, 5)
        /\ IsTopSelection(an_report.top_files, analysis.files, TokensValue, 10)

\* A report on a corpus of more than 10 tags, 5 targets and 10 files, where
\* each selection cuts between two entries of equal value.
C19_Witness ==
    /\ ReportEmitted
    /\ Len(analysis.tags) > 10 /\ Len(analysis.backlinks) > 5 /\ Len(analysis.files) > 10
    /\ \E i \in 1..Len(analysis.tags) :
          /\ analysis.tags[i].n = an_report.top_tags[10].n
          /\ \A r \in 1..10 : an_report.top_tags[r] # analysis.tags[i]
    /\ \E i \in 1..Len(analysis.backlinks) :
          /\ Len(analysis.backlinks[i].refs) = Len(an_report.top_backlinks[5].refs)
          /\ \A r \in 1..5 : an_report.top_backlinks[r] # analysis.backlinks[i]
    /\ \E i \in 1..Len(analysis.files) :
          /\ analysis.files[i].estimated_tokens10
                = an_report.top_files[10].estimated_tokens10
          /\ \A r \in 1..10 : an_report.top_files[r] # analysis.files[i]


(***************************************************************************)
(* package_skill: what an archive holds                                    *)
(***************************************************************************)

\* C20: every entry of an archive package_skill wrote is a regular file of
\* the skill directory, stored under the directory's name, and that file has
\* no path component starting with '.', no '.pyc' or '.pyo' suffix, and does
\* not lie in a '__pycache__' directory.
C20_ArchiveHoldsOnlyPlainFiles ==
    ArchiveWritten =>
        \A e \in zip_file.entries :
            \E f \in AllFiles(skill_dir) :
                /\ SplitPath(e.arcname) = <<PathName(pk_args.skill_path)>> \o f.path
                /\ e.bytes = f.bytes
                /\ ~Hidden(f.path)
                /\ ~CompiledArtifact(f.path)

\* An archive of three entries written for a directory that also holds
\* hidden files, compiled files and a file in a __pycache__ directory.
C20_Witness ==
    /\ ArchiveWritten
    /\ Cardinality(zip_file.entries) = 3
    /\ \E f \in skill_dir.files : Hidden(f.path)
    /\ \E f \in skill_dir.files : PathSuffix(f.path) = ".pyo"
    /\ \E f \in skill_dir.files : PathSuffix(f.path) = ".txt" /\ CompiledArtifact(f.path)


(***************************************************************************)
(* estimate_loading_strategy: monotonicity                                 *)
(***************************************************************************)

\* The labels in their order: always < selective < on-demand.
StrategyRank(label) ==
    CASE label = "always" -> 1
      [] label = "selective" -> 2
      [] label = "on-demand" -> 3

\* C26: the strategy returned for a token total and a file count is never
\* higher than the strategy for any token total and file count that are both
\* at least as large.
C26_StrategyIsMonotone ==
    LsReturned =>
        \A t \in LsTokenInputs : \A n \in LsFileInputs :
            (ls_tokens10 <= t /\ ls_files <= n)
                => StrategyRank(LsLabel)
                       <= StrategyRank(EstimateLoadingStrategy(t, n)[1])

\* 'selective' was returned for a corpus over the small token threshold but
\* of few files, and larger corpora of the inputs get 'always' never and
\* 'on-demand' sometimes.
C26_Witness ==
    /\ LsReturned
    /\ LsLabel = "selective"
    /\ ls_tokens10 > AlwaysTokens * 10
    /\ ls_files < AlwaysFiles
    /\ \E t \in LsTokenInputs : \E n \in LsFileInputs :
          /\ ls_tokens10 <= t /\ ls_files <= n
          /\ EstimateLoadingStrategy(t, n)[1] = "on-demand"


(***************************************************************************)
(* main of the analyzer on a corpus without markdown files                 *)
(***************************************************************************)

\* The run of main has ended: by sys.exit, by returning from generate_report,
\* or by an exception.
AnEnded == an_pc \in {"exited", "crashed", "report crashed"}

\* C22: a run of main on an existing corpus root that holds no markdown
\* file ends with a report emitted, and generate_report does not raise.
C22_EmptyCorpusIsReported ==
    (repo_exists /\ md_files = <<>> /\ AnEnded)
        => (ReportEmitted /\ an_pc # "report crashed")


(***************************************************************************)
(* package_skill: the archive path after a failure                         *)
(***************************************************************************)

\* C24: whenever package_skill returns failure (main exits with 1), the
\* file at the archive path is what it was before the call: no new archive
\* exists and an archive that was there is not rewritten.
C24_FailureKeepsArchivePath ==
    [][(pk_pc = "package_skill" /\ pk_exit' = 1) => zip_file' = zip_file]_vars


(***************************************************************************)
(* create_skill: the skeleton, the names it takes, and its failures        *)
(***************************************************************************)

\* create_skill was called with a name it accepts and a skill path that did
\* not exist, and has ended, by its return or by an exception.
CsEndedPastChecks == cs_pc \in {"returned True", "raised"}

\* The skill directory holds scripts/, references/ and assets/templates/.
HasSkeleton(fs, skill_path) ==
    /\ skill_path \in fs.dirs
    /\ skill_path \o <<"scripts">> \in fs.dirs
    /\ skill_path \o <<"references">> \in fs.dirs
    /\ skill_path \o <<"assets", "templates">> \in fs.dirs

\* SKILL.md of the skill directory begins with a frontmatter block whose
\* name line carries the name and which has a description line.
HasSkillMdFor(fs, skill_path, skill_name) ==
    \E f \in fs.files :
        /\ f.path = skill_path \o <<"SKILL.md">>
        /\ Len(f.text.lines) >= 4
        /\ f.text.lines[1] = "---"
        /\ f.text.lines[2] = "name: " \o skill_name
        /\ StartsWith(f.text.lines[3], "description:")
        /\ f.text.lines[4] = "---"

\* C21: after create_skill was called with a valid name and no directory
\* at the target, for each of the four template types and for an unknown
\* type, the skill directory holds SKILL.md, scripts/, references/ and
\* assets/templates/, and SKILL.md begins with a frontmatter block with the
\* given name on its name line and a description line.
C21_SuccessYieldsSkeleton ==
    CsEndedPastChecks
        => /\ HasSkeleton(cs_fs, SkillPath(cs_args.skill_name))
           /\ HasSkillMdFor(cs_fs, SkillPath(cs_args.skill_name), cs_args.skill_name)

\* create_skill has made its tests of the name.
CsNameChecked == cs_pc # "create_skill"

\* C23: a name passes create_skill's tests of characters and length exactly
\* when the validator's check of the name field records no error for it.
C23_NameChecksAgree ==
    CsNameChecked
        => (NameAccepted(cs_args.skill_name)
               <=> NameFindings(YStr(cs_args.skill_name)).errors = <<>>)

\* A name with a character that is no lowercase letter, digit or hyphen, or
\* of more than 64 characters.
InvalidName(skill_name) ==
    \/ \E i \in 1..Len(skill_name) :
          LET c == CharAt(skill_name, i)
          IN  ~(IsLower(c) \/ IsDigit(c) \/ c = "-")
    \/ Len(skill_name) > MaxSkillNameLen

\* C25: called with an invalid name or with a target that exists,
\* create_skill returns False without a change to the file system, and main
\* then exits with 1, again without a change.
C25_RejectionLeavesFilesUntouched ==
    [][/\ (/\ cs_pc = "create_skill"
           /\ \/ InvalidName(cs_args.skill_name)
              \/ PathExists(cs_fs, SkillPath(cs_args.skill_name)))
          => (cs_pc' = "returned False" /\ cs_fs' = cs_fs)
       /\ cs_pc = "returned False"
          => (cs_pc' = "exited" /\ cs_exit' = 1 /\ cs_fs' = cs_fs)]_vars

\* main exited with 1 on a name of 65 characters, nothing created; and the
\* same on a valid name whose directory existed, its SKILL.md as it was.
C25_Witness ==
    /\ cs_pc = "exited"
    /\ cs_exit = 1
    /\ \/ /\ cs_args.skill_name = Rep("a", MaxSkillNameLen + 1)
          /\ cs_fs = [dirs |-> {}, files |-> {}]
       \/ /\ cs_args.skill_name = "my-skill"
          /\ cs_args.template_type = "generic"
          /\ [path |-> <<"my-skill", "SKILL.md">>, text |-> OldSkillMd] \in cs_fs.files

====
